---- MODULE Spec2Model ----
(***************************************************************************)
(* A model of the music-theory engine of xbox-instrument                   *)
(* (src/src/utils/music-theory.ts, final revision, lines 477-928).         *)
(*                                                                         *)
(* Text representation.  A note name such as "C#" is the pair              *)
(* <<"C", "#">> of its first character and the rest (charAt(0), slice(1)). *)
(* A note text such as "C#4" is the record [name |-> <<"C","#">>,          *)
(* oct |-> <<4>>]; a text without octave digits has oct = <<>>.  The       *)
(* decimal rendering of an integer octave and parseInt of it are modelled  *)
(* by the integer itself.                                                  *)
(***************************************************************************)
EXTENDS Integers, Sequences, FiniteSets, Bags, TLC

(***************************************************************************)
(* JavaScript arithmetic                                                   *)
(***************************************************************************)

\* The % operator of JavaScript: the remainder has the sign of the dividend.
JsMod(a, b) == IF a >= 0 THEN a % b ELSE -((-a) % b)

\* Math.floor(a / b) for b > 0.
MathFloorDiv(a, b) == a \div b

\* Array.prototype.indexOf on a sequence: 0-based position, -1 when absent.
IndexOf(arr, x) ==
  IF \E i \in 1..Len(arr) : arr[i] = x
    THEN (CHOOSE i \in 1..Len(arr) : arr[i] = x /\ \A j \in 1..(i-1) : arr[j] # x) - 1
    ELSE -1

\* arr[i] of JavaScript (0-based).
At(arr, i) == arr[i + 1]

(***************************************************************************)
(* Tables                                                                  *)
(***************************************************************************)

NOTES ==
  << <<"C","">>, <<"C","#">>, <<"D","">>, <<"D","#">>, <<"E","">>, <<"F","">>,
     <<"F","#">>, <<"G","">>, <<"G","#">>, <<"A","">>, <<"A","#">>, <<"B","">> >>

DiatonicModes ==
  {"Ionian", "Dorian", "Phrygian", "Lydian", "Mixolydian", "Aeolian", "Locrian"}

ScaleMode == DiatonicModes \cup {"Chromatic"}

MODES ==
  [m \in ScaleMode |->
     CASE m = "Ionian"     -> <<0, 2, 4, 5, 7, 9, 11>>
       [] m = "Dorian"     -> <<0, 2, 3, 5, 7, 9, 10>>
       [] m = "Phrygian"   -> <<0, 1, 3, 5, 7, 8, 10>>
       [] m = "Lydian"     -> <<0, 2, 4, 6, 7, 9, 11>>
       [] m = "Mixolydian" -> <<0, 2, 4, 5, 7, 9, 10>>
       [] m = "Aeolian"    -> <<0, 2, 3, 5, 7, 8, 10>>
       [] m = "Locrian"    -> <<0, 1, 3, 5, 6, 8, 10>>
       [] m = "Chromatic"  -> <<0, 1, 2, 3, 4, 5, 6, 7, 8, 9, 10, 11>>]

PREFERRED_ROOT_NAMES ==
  << <<"C","">>, <<"D","b">>, <<"D","">>, <<"E","b">>, <<"E","">>, <<"F","">>,
     <<"F","#">>, <<"G","">>, <<"A","b">>, <<"A","">>, <<"B","b">>, <<"B","">> >>

ChordType == {"maj", "min", "dim", "aug", "sus2", "sus4", "7", "maj7", "min7"}

CHORD_INTERVALS ==
  [t \in ChordType |->
     CASE t = "maj"  -> <<0, 4, 7>>
       [] t = "min"  -> <<0, 3, 7>>
       [] t = "dim"  -> <<0, 3, 6>>
       [] t = "aug"  -> <<0, 4, 8>>
       [] t = "sus2" -> <<0, 2, 7>>
       [] t = "sus4" -> <<0, 5, 7>>
       [] t = "7"    -> <<0, 4, 7, 10>>
       [] t = "maj7" -> <<0, 4, 7, 11>>
       [] t = "min7" -> <<0, 3, 7, 10>>]

(***************************************************************************)
(* Pitch codec                                                             *)
(***************************************************************************)

\* The text  name + octave digits.
NoteText(name, oct) == [name |-> name, oct |-> oct]

\* The regular expression of parseNote: /^([A-G](?:#{1,2}|b{1,2})?)(-?\d+)?$/.
NoteRegexMatches(note) ==
  /\ note.name[1] \in {"A", "B", "C", "D", "E", "F", "G"}
  /\ note.name[2] \in {"", "#", "##", "b", "bb"}

getNoteIndex(noteName) ==
  LET index == IndexOf(NOTES, noteName)
      letter == noteName[1]
      accidental == noteName[2]
      baseIndex == IndexOf(NOTES, <<letter, "">>)
      shifted == baseIndex
                 + (IF accidental = "#" THEN 1 ELSE 0)
                 - (IF accidental = "b" THEN 1 ELSE 0)
                 + (IF accidental = "##" THEN 2 ELSE 0)
                 - (IF accidental = "bb" THEN 2 ELSE 0)
  IN IF index # -1 THEN index
     ELSE IF baseIndex = -1 THEN 0
     ELSE JsMod(shifted + 12, 12)

\* parseNote with the default of a rejected text at octave 0 instead of C4.
parseNoteDefaultC0(note) ==
  IF ~NoteRegexMatches(note)
    THEN [name |-> <<"C", "">>, octave |-> 0, absValue |-> 0]
    ELSE LET name == note.name
             octave == IF note.oct # <<>> THEN note.oct[1] ELSE 4
             noteIndex == getNoteIndex(name)
         IN [name |-> name, octave |-> octave, absValue |-> octave * 12 + noteIndex]

parseNote(note) ==
  IF ~NoteRegexMatches(note)
    THEN [name |-> <<"C", "">>, octave |-> 4, absValue |-> 48]
    ELSE LET name == note.name
             octave == IF note.oct # <<>> THEN note.oct[1] ELSE 4
             noteIndex == getNoteIndex(name)
         IN [name |-> name, octave |-> octave, absValue |-> octave * 12 + noteIndex]

\* getNoteFromIndex with the octave carry truncated toward zero instead of floored.
getNoteFromIndexTrunc(index, octave) ==
  LET normalizedIndex == JsMod(JsMod(index, 12) + 12, 12)
      octaveShift == IF index >= 0 THEN index \div 12 ELSE -((-index) \div 12)
  IN NoteText(At(NOTES, normalizedIndex), <<octave + octaveShift>>)

getNoteFromIndex(index, octave) ==
  LET normalizedIndex == JsMod(JsMod(index, 12) + 12, 12)
      octaveShift == MathFloorDiv(index, 12)
  IN NoteText(At(NOTES, normalizedIndex), <<octave + octaveShift>>)

\* spellNote without the folding of the distance into [-6, 6].
spellNoteNoFold(targetIndex, targetLetter) ==
  LET letterIndex == IndexOf(NOTES, <<targetLetter, "">>)
      diff == targetIndex - letterIndex
  IN CASE diff = 0  -> <<targetLetter, "">>
       [] diff = 1  -> <<targetLetter, "#">>
       [] diff = 2  -> <<targetLetter, "##">>
       [] diff = -1 -> <<targetLetter, "b">>
       [] diff = -2 -> <<targetLetter, "bb">>
       [] OTHER     -> At(NOTES, targetIndex)

\* spellNote spelling a distance of three semitones with a triple accidental.
spellNoteTripleAccidental(targetIndex, targetLetter) ==
  LET letterIndex == IndexOf(NOTES, <<targetLetter, "">>)
      diff0 == targetIndex - letterIndex
      diff1 == IF diff0 > 6 THEN diff0 - 12 ELSE diff0
      diff == IF diff1 < -6 THEN diff1 + 12 ELSE diff1
  IN CASE diff = 0  -> <<targetLetter, "">>
       [] diff = 1  -> <<targetLetter, "#">>
       [] diff = 2  -> <<targetLetter, "##">>
       [] diff = 3  -> <<targetLetter, "###">>
       [] diff = -1 -> <<targetLetter, "b">>
       [] diff = -2 -> <<targetLetter, "bb">>
       [] diff = -3 -> <<targetLetter, "bbb">>
       [] OTHER     -> At(NOTES, targetIndex)

spellNote(targetIndex, targetLetter) ==
  LET letterIndex == IndexOf(NOTES, <<targetLetter, "">>)
      diff0 == targetIndex - letterIndex
      diff1 == IF diff0 > 6 THEN diff0 - 12 ELSE diff0
      diff == IF diff1 < -6 THEN diff1 + 12 ELSE diff1
  IN CASE diff = 0  -> <<targetLetter, "">>
       [] diff = 1  -> <<targetLetter, "#">>
       [] diff = 2  -> <<targetLetter, "##">>
       [] diff = -1 -> <<targetLetter, "b">>
       [] diff = -2 -> <<targetLetter, "bb">>
       [] OTHER     -> At(NOTES, targetIndex)

transpose(note, semitones) ==
  LET p == parseNote(note)
      index == getNoteIndex(p.name)
      absoluteIndex == index + p.octave * 12 + semitones
  IN getNoteFromIndex(absoluteIndex, 0)

(***************************************************************************)
(* Array helpers                                                           *)
(***************************************************************************)

\* Array.prototype.sort((a, b) => key(a) - key(b)): ascending and stable.
\* The elements travel as pairs <<key, element>>.
RECURSIVE InsertPair(_, _)
InsertPair(sorted, x) ==
  IF sorted = <<>> THEN <<x>>
  ELSE IF sorted[Len(sorted)][1] <= x[1] THEN Append(sorted, x)
  ELSE Append(InsertPair(SubSeq(sorted, 1, Len(sorted) - 1), x), sorted[Len(sorted)])

RECURSIVE SortPairs(_, _)
SortPairs(sorted, rest) ==
  IF rest = <<>> THEN sorted
  ELSE SortPairs(InsertPair(sorted, Head(rest)), Tail(rest))

\* arr.sort((a, b) => a.absValue - b.absValue)
SortByAbsValue(arr) ==
  LET pairs == SortPairs(<<>>, [i \in 1..Len(arr) |-> <<arr[i].absValue, arr[i]>>])
  IN [i \in 1..Len(pairs) |-> pairs[i][2]]

\* arr.sort((a, b) => a - b)
SortNumbers(arr) ==
  LET pairs == SortPairs(<<>>, [i \in 1..Len(arr) |-> <<arr[i], arr[i]>>])
  IN [i \in 1..Len(pairs) |-> pairs[i][2]]

\* The spread of the Set left out: every value is kept, duplicates included.
UniqueKeepsAll(arr) == arr

\* [...new Set(arr)]: the first occurrence of each value, in insertion order.
RECURSIVE UniqueFrom(_, _)
UniqueFrom(seen, rest) ==
  IF rest = <<>> THEN seen
  ELSE IF \E i \in 1..Len(seen) : seen[i] = Head(rest)
         THEN UniqueFrom(seen, Tail(rest))
         ELSE UniqueFrom(Append(seen, Head(rest)), Tail(rest))

Unique(arr) == UniqueFrom(<<>>, arr)

(***************************************************************************)
(* Scale generator                                                         *)
(***************************************************************************)

LETTERS == <<"C", "D", "E", "F", "G", "A", "B">>

\* The forEach callback of the first revision (lines 63-76): every mode in fixed sharp
\* spelling, getNoteFromIndex(currentOctaveStart + interval, 0).
ScaleNoteSharpSpelled(mode, rootIndex, rootLetterIndex, currentOctave, interval, degree) ==
  getNoteFromIndex(rootIndex + currentOctave * 12 + interval, 0)

\* The forEach callback without the octave step for letters that wrap past B.
ScaleNoteNoOctaveStep(mode, rootIndex, rootLetterIndex, currentOctave, interval, degree) ==
  LET absPitch == JsMod(rootIndex + interval, 12)
  IN IF mode = "Chromatic"
       THEN getNoteFromIndex(absPitch, currentOctave)
       ELSE LET targetLetterIndex == JsMod(rootLetterIndex + degree, 7)
                targetLetter == At(LETTERS, targetLetterIndex)
                spelledNoteName == spellNote(absPitch, targetLetter)
            IN NoteText(spelledNoteName, <<currentOctave>>)

\* The note one iteration of intervals.forEach pushes.
ScaleNote(mode, rootIndex, rootLetterIndex, currentOctave, interval, degree) ==
  LET absPitch == JsMod(rootIndex + interval, 12)
  IN IF mode = "Chromatic"
       THEN getNoteFromIndex(absPitch, currentOctave)
       ELSE LET targetLetterIndex == JsMod(rootLetterIndex + degree, 7)
                targetLetter == At(LETTERS, targetLetterIndex)
                spelledNoteName == spellNote(absPitch, targetLetter)
                noteOctave == IF targetLetterIndex < rootLetterIndex
                                THEN currentOctave + 1
                                ELSE currentOctave
            IN NoteText(spelledNoteName, <<noteOctave>>)

\* intervals.forEach((interval, degree) => ...) from position degree on.
RECURSIVE ScaleForEach(_, _, _, _, _, _)
ScaleForEach(notes, mode, rootIndex, rootLetterIndex, currentOctave, degree) ==
  IF degree >= Len(MODES[mode]) THEN notes
  ELSE ScaleForEach(
         Append(notes, ScaleNote(mode, rootIndex, rootLetterIndex, currentOctave,
                                 At(MODES[mode], degree), degree)),
         mode, rootIndex, rootLetterIndex, currentOctave, degree + 1)

\* The octave loop with the bound off by one: i <= octaves.
RECURSIVE ScaleOctavesInclusive(_, _, _, _, _, _, _)
ScaleOctavesInclusive(notes, mode, rootIndex, rootLetterIndex, rootOctave, i, octaves) ==
  IF i > octaves THEN notes
  ELSE ScaleOctavesInclusive(
         ScaleForEach(notes, mode, rootIndex, rootLetterIndex, rootOctave + i, 0),
         mode, rootIndex, rootLetterIndex, rootOctave, i + 1, octaves)

\* for (let i = 0; i < octaves; i++) from i on.
RECURSIVE ScaleOctaves(_, _, _, _, _, _, _)
ScaleOctaves(notes, mode, rootIndex, rootLetterIndex, rootOctave, i, octaves) ==
  IF i >= octaves THEN notes
  ELSE ScaleOctaves(
         ScaleForEach(notes, mode, rootIndex, rootLetterIndex, rootOctave + i, 0),
         mode, rootIndex, rootLetterIndex, rootOctave, i + 1, octaves)

getScaleNotes(root, mode, octaves) ==
  LET p == parseNote(root)
      rootIndex == getNoteIndex(p.name)
      rootLetter == p.name[1]
      rootLetterIndex == IndexOf(LETTERS, rootLetter)
  IN ScaleOctaves(<<>>, mode, rootIndex, rootLetterIndex, p.octave, 0, octaves)

(***************************************************************************)
(* Chord builder and generic inversion                                     *)
(***************************************************************************)

\* The steps > 0 pass with the push forgotten: the lowest note is shifted out and lost.
InversionStepUpNoPush(parsedNotes) ==
  IF parsedNotes = <<>> THEN parsedNotes
  ELSE SortByAbsValue(Tail(parsedNotes))

\* The steps < 0 pass with the unshift forgotten: the highest note is popped and lost.
InversionStepDownNoUnshift(parsedNotes) ==
  IF parsedNotes = <<>> THEN parsedNotes
  ELSE SortByAbsValue(SubSeq(parsedNotes, 1, Len(parsedNotes) - 1))

\* One pass of the steps > 0 loop: shift the lowest, push it an octave up, sort.
InversionStepUp(parsedNotes) ==
  IF parsedNotes = <<>> THEN parsedNotes
  ELSE LET lowest == Head(parsedNotes)
           newAbs == lowest.absValue + 12
           newName == getNoteFromIndex(newAbs, 0)
       IN SortByAbsValue(Append(Tail(parsedNotes), parseNote(newName)))

\* The steps < 0 pass without the sort after the unshift.
InversionStepDownNoSort(parsedNotes) ==
  IF parsedNotes = <<>> THEN parsedNotes
  ELSE LET highest == parsedNotes[Len(parsedNotes)]
           newAbs == highest.absValue - 12
           newName == getNoteFromIndex(newAbs, 0)
       IN <<parseNote(newName)>> \o SubSeq(parsedNotes, 1, Len(parsedNotes) - 1)

\* One pass of the steps < 0 loop: pop the highest, unshift it an octave down, sort.
InversionStepDown(parsedNotes) ==
  IF parsedNotes = <<>> THEN parsedNotes
  ELSE LET highest == parsedNotes[Len(parsedNotes)]
           newAbs == highest.absValue - 12
           newName == getNoteFromIndex(newAbs, 0)
       IN SortByAbsValue(<<parseNote(newName)>> \o SubSeq(parsedNotes, 1, Len(parsedNotes) - 1))

\* The loop with its bound off by one: i <= count.
RECURSIVE InversionLoopInclusive(_, _, _, _)
InversionLoopInclusive(parsedNotes, i, count, up) ==
  IF i > count THEN parsedNotes
  ELSE InversionLoopInclusive(IF up THEN InversionStepUp(parsedNotes)
                                    ELSE InversionStepDown(parsedNotes),
                              i + 1, count, up)

RECURSIVE InversionLoop(_, _, _, _)
InversionLoop(parsedNotes, i, count, up) ==
  IF i >= count THEN parsedNotes
  ELSE InversionLoop(IF up THEN InversionStepUp(parsedNotes)
                           ELSE InversionStepDown(parsedNotes),
                     i + 1, count, up)

\* applyGenericInversion without the early return for steps = 0.
applyGenericInversionNoEarlyReturn(notes, steps) ==
  LET parsedNotes == SortByAbsValue([i \in 1..Len(notes) |-> parseNote(notes[i])])
      moved == IF steps > 0
                 THEN InversionLoop(parsedNotes, 0, steps, TRUE)
                 ELSE InversionLoop(parsedNotes, 0, -steps, FALSE)
  IN [i \in 1..Len(moved) |-> getNoteFromIndex(moved[i].absValue, 0)]

applyGenericInversion(notes, steps) ==
  IF steps = 0 THEN notes
  ELSE LET parsedNotes == SortByAbsValue([i \in 1..Len(notes) |-> parseNote(notes[i])])
           moved == IF steps > 0
                      THEN InversionLoop(parsedNotes, 0, steps, TRUE)
                      ELSE InversionLoop(parsedNotes, 0, -steps, FALSE)
       IN [i \in 1..Len(moved) |-> getNoteFromIndex(moved[i].absValue, 0)]

getChordNotes(root, type, inversion) ==
  LET p == parseNote(root)
      rootIndex == getNoteIndex(p.name)
      intervals == CHORD_INTERVALS[type]
      notes == [i \in 1..Len(intervals) |->
                  getNoteFromIndex(rootIndex + intervals[i] + p.octave * 12, 0)]
  IN applyGenericInversion(notes, inversion)

(***************************************************************************)
(* Chord name detector                                                     *)
(***************************************************************************)

\* The signatures object; a key "0,4,7" is the sequence <<0, 4, 7>>.
SignatureKeys ==
  { <<0,4,7>>, <<0,3,7>>, <<0,3,6>>, <<0,4,8>>, <<0,2,7>>, <<0,5,7>>,
    <<0,4,7,11>>, <<0,4,7,10>>, <<0,3,7,10>>, <<0,3,6,9>>, <<0,3,6,10>> }

signatures ==
  [k \in SignatureKeys |->
     CASE k = <<0,4,7>>    -> ""
       [] k = <<0,3,7>>    -> "m"
       [] k = <<0,3,6>>    -> "dim"
       [] k = <<0,4,8>>    -> "aug"
       [] k = <<0,2,7>>    -> "sus2"
       [] k = <<0,5,7>>    -> "sus4"
       [] k = <<0,4,7,11>> -> "maj7"
       [] k = <<0,4,7,10>> -> "7"
       [] k = <<0,3,7,10>> -> "m7"
       [] k = <<0,3,6,9>>  -> "dim7"
       [] k = <<0,3,6,10>> -> "m7b5"]

\* The label strings: "" , "?" , root + quality , root + quality + "/" + bass.
\* bass is <<>> when the label has no slash part, <<name>> when it has one.
EmptyLabel == [root |-> <<>>, quality |-> "", bass |-> <<>>]

\* The sentinel written as the empty string.
UnknownLabelAsEmpty == [root |-> <<>>, quality |-> "", bass |-> <<>>]

UnknownLabel == [root |-> <<>>, quality |-> "?", bass |-> <<>>]

ChordLabel(rootName, quality) == [root |-> rootName, quality |-> quality, bass |-> <<>>]

SlashLabel(rootName, quality, bassNote) ==
  [root |-> rootName, quality |-> quality, bass |-> <<bassNote>>]

\* uniquePitchClasses.map(p => (p - rootIndex + 12) % 12).sort().join(',')
currentIntervals(uniquePitchClasses, rootIndex) ==
  SortNumbers([i \in 1..Len(uniquePitchClasses) |->
               JsMod(uniquePitchClasses[i] - rootIndex + 12, 12)])

\* if (rootName !== bassNote) slash form, else plain form.
MatchedLabel(rootIndex, key, bassNote) ==
  LET rootName == At(PREFERRED_ROOT_NAMES, rootIndex)
      quality == signatures[key]
  IN IF rootName # bassNote
       THEN SlashLabel(rootName, quality, bassNote)
       ELSE ChordLabel(rootName, quality)

\* for (const rootIndex of uniquePitchClasses) from position k on; '?' at the end.
RECURSIVE DetectLoop(_, _, _)
DetectLoop(uniquePitchClasses, k, bassNote) ==
  IF k > Len(uniquePitchClasses) THEN UnknownLabel
  ELSE LET rootIndex == uniquePitchClasses[k]
           key == currentIntervals(uniquePitchClasses, rootIndex)
       IN IF key \in SignatureKeys
            THEN MatchedLabel(rootIndex, key, bassNote)
            ELSE DetectLoop(uniquePitchClasses, k + 1, bassNote)

\* uniquePitchClasses without its sort: the candidates stay in sounding order, bass first.
uniquePitchClassesUnsorted(parsed) ==
  Unique([i \in 1..Len(parsed) |-> getNoteIndex(parsed[i].name)])

\* const uniquePitchClasses = [...new Set(pitchClasses)].sort((a, b) => a - b)
uniquePitchClassesOf(parsed) ==
  SortNumbers(Unique([i \in 1..Len(parsed) |-> getNoteIndex(parsed[i].name)]))

detectChordName(notes) ==
  IF Len(notes) = 0 THEN EmptyLabel
  ELSE LET parsed == SortByAbsValue([i \in 1..Len(notes) |-> parseNote(notes[i])])
           bassNote == parsed[1].name
       IN DetectLoop(uniquePitchClassesOf(parsed), 1, bassNote)

(***************************************************************************)
(* Roman numerals                                                          *)
(***************************************************************************)

numerals == <<"I", "II", "III", "IV", "V", "VI", "VII">>

\* String.prototype.toLowerCase on a numeral.
toLowerCase(base) ==
  CASE base = "I" -> "i" [] base = "II" -> "ii" [] base = "III" -> "iii"
    [] base = "IV" -> "iv" [] base = "V" -> "v" [] base = "VI" -> "vi"
    [] base = "VII" -> "vii"

\* The text  numeral + suffix; '' is <<"", "">>.
NumeralText(base, suffix) == <<base, suffix>>

\* getRomanNumeral with the diminished case left in upper case.
getRomanNumeralDimUpper(degree, type) ==
  IF degree < 0 \/ degree >= Len(numerals) THEN NumeralText("", "")
  ELSE LET base == At(numerals, degree)
       IN CASE type \in {"maj", "maj7"} -> NumeralText(base, "")
            [] type \in {"min", "min7"} -> NumeralText(toLowerCase(base), "")
            [] type = "dim"  -> NumeralText(base, "°")
            [] type = "aug"  -> NumeralText(base, "+")
            [] type = "sus2" -> NumeralText(base, "sus2")
            [] type = "sus4" -> NumeralText(base, "sus4")
            [] type = "7"    -> NumeralText(base, "7")
            [] OTHER         -> NumeralText(base, "")

getRomanNumeral(degree, type) ==
  IF degree < 0 \/ degree >= Len(numerals) THEN NumeralText("", "")
  ELSE LET base == At(numerals, degree)
       IN CASE type \in {"maj", "maj7"} -> NumeralText(base, "")
            [] type \in {"min", "min7"} -> NumeralText(toLowerCase(base), "")
            [] type = "dim"  -> NumeralText(toLowerCase(base), "°")
            [] type = "aug"  -> NumeralText(base, "+")
            [] type = "sus2" -> NumeralText(base, "sus2")
            [] type = "sus4" -> NumeralText(base, "sus4")
            [] type = "7"    -> NumeralText(base, "7")
            [] OTHER         -> NumeralText(base, "")

(***************************************************************************)
(* Diatonic chord deriver                                                  *)
(***************************************************************************)

\* The value undefined.
Undefined == [undefined |-> TRUE]

\* What a call that throws leaves its caller with.
TypeError == "TypeError"

\* scaleNotes[i] for an integer i: undefined outside 0 .. length - 1.
ElementAt(arr, i) == IF i >= 0 /\ i < Len(arr) THEN At(arr, i) ELSE Undefined

\* scaleNotes[k % scaleNotes.length]: the remainder by 0 is NaN, and arr[NaN] is undefined.
ElementAtRemainder(arr, k) ==
  IF Len(arr) = 0 THEN Undefined ELSE ElementAt(arr, JsMod(k, Len(arr)))

\* !x for a note text or undefined: true of undefined and of the empty string.
Falsy(x) == x = Undefined \/ x = NoteText(<<"", "">>, <<>>)

\* (a - b) % 12, raised by 12 when negative.
IntervalMod12(a, b) ==
  LET r == JsMod(a - b, 12) IN IF r < 0 THEN r + 12 ELSE r

\* The classification without the augmented case.
ClassifyTriadNoAug(thirdInterval, fifthInterval) ==
  IF fifthInterval = 7 /\ thirdInterval = 4 THEN "maj"
  ELSE IF fifthInterval = 7 /\ thirdInterval = 3 THEN "min"
  ELSE IF fifthInterval = 6 /\ thirdInterval = 3 THEN "dim"
  ELSE "maj"

\* The classification at the end of getDiatonicChordType.
ClassifyTriad(thirdInterval, fifthInterval) ==
  IF fifthInterval = 7 /\ thirdInterval = 4 THEN "maj"
  ELSE IF fifthInterval = 7 /\ thirdInterval = 3 THEN "min"
  ELSE IF fifthInterval = 6 /\ thirdInterval = 3 THEN "dim"
  ELSE IF fifthInterval = 8 /\ thirdInterval = 4 THEN "aug"
  ELSE "maj"

\* getDiatonicChordType with the intervals of the first revision (lines 146-147):
\* plain differences of absolute values, not reduced modulo 12.
getDiatonicChordTypePlainIntervals(scaleNotes, degreeIndex) ==
  LET rootText == ElementAtRemainder(scaleNotes, degreeIndex)
      thirdText == ElementAtRemainder(scaleNotes, degreeIndex + 2)
      fifthText == ElementAtRemainder(scaleNotes, degreeIndex + 4)
  IN IF rootText = Undefined \/ thirdText = Undefined \/ fifthText = Undefined
       THEN TypeError
       ELSE ClassifyTriad(parseNote(thirdText).absValue - parseNote(rootText).absValue,
                          parseNote(fifthText).absValue - parseNote(rootText).absValue)

\* parseNote(undefined) calls undefined.match and throws; parseNote always returns an
\* object, so the test  !root || !third || !fifth  never holds.
getDiatonicChordType(scaleNotes, degreeIndex) ==
  LET rootText == ElementAtRemainder(scaleNotes, degreeIndex)
      thirdText == ElementAtRemainder(scaleNotes, degreeIndex + 2)
      fifthText == ElementAtRemainder(scaleNotes, degreeIndex + 4)
  IN IF rootText = Undefined \/ thirdText = Undefined \/ fifthText = Undefined
       THEN TypeError
       ELSE ClassifyTriad(
              IntervalMod12(parseNote(thirdText).absValue, parseNote(rootText).absValue),
              IntervalMod12(parseNote(fifthText).absValue, parseNote(rootText).absValue))

\* getDiatonicChord with the voicing rule starting one degree late: degreeIndex > 3.
getDiatonicChordLateVoicing(scaleNotes, degreeIndex, inversionStrategy) ==
  LET root == ElementAt(scaleNotes, degreeIndex)
      third == ElementAt(scaleNotes, degreeIndex + 2)
      fifth == ElementAt(scaleNotes, degreeIndex + 4)
  IN IF Falsy(third) \/ Falsy(fifth) THEN <<root>>
     ELSE IF inversionStrategy /\ degreeIndex > 3
            THEN <<transpose(fifth, -12), root, third>>
            ELSE <<root, third, fifth>>

getDiatonicChord(scaleNotes, degreeIndex, inversionStrategy) ==
  LET root == ElementAt(scaleNotes, degreeIndex)
      third == ElementAt(scaleNotes, degreeIndex + 2)
      fifth == ElementAt(scaleNotes, degreeIndex + 4)
  IN IF Falsy(third) \/ Falsy(fifth) THEN <<root>>
     ELSE IF inversionStrategy /\ degreeIndex >= 3
            THEN <<transpose(fifth, -12), root, third>>
            ELSE <<root, third, fifth>>

(***************************************************************************)
(* Circle of fifths                                                        *)
(***************************************************************************)

\* The counter-clockwise step written as -7 instead of +5.
getNextRootCircleOfFifthsMinusSeven(currentRootIndex, direction) ==
  LET step == IF direction = 1 THEN 7 ELSE -7
  IN JsMod(currentRootIndex + step, 12)

getNextRootCircleOfFifths(currentRootIndex, direction) ==
  LET step == IF direction = 1 THEN 7 ELSE 5
  IN JsMod(currentRootIndex + step, 12)

(***************************************************************************)
(* The arrays of a call.  Array.prototype.map and the spread of a Set make *)
(* a new array; sort, shift, push, pop and unshift change the array they   *)
(* are called on.  Each operator gives the arrays a call holds when it     *)
(* returns: the caller's list under the parameter's name, and the locals.  *)
(***************************************************************************)

\* applyGenericInversion sorting the caller's list in place before mapping it.
applyGenericInversionArraysSortInPlace(notes, steps) ==
  IF steps = 0 THEN [notes |-> notes, parsedNotes |-> <<>>]
  ELSE LET pairs == SortPairs(<<>>, [i \in 1..Len(notes) |->
                                       <<parseNote(notes[i]).absValue, notes[i]>>])
           sortedNotes == [i \in 1..Len(pairs) |-> pairs[i][2]]
           parsedNotes == [i \in 1..Len(notes) |-> parseNote(sortedNotes[i])]
       IN [notes |-> sortedNotes,
           parsedNotes |-> IF steps > 0
                             THEN InversionLoop(parsedNotes, 0, steps, TRUE)
                             ELSE InversionLoop(parsedNotes, 0, -steps, FALSE)]

\* parsedNotes = notes.map(...) is a new array; the sort and the loop act on it.
applyGenericInversionArrays(notes, steps) ==
  IF steps = 0 THEN [notes |-> notes, parsedNotes |-> <<>>]
  ELSE LET parsedNotes == SortByAbsValue([i \in 1..Len(notes) |-> parseNote(notes[i])])
       IN [notes |-> notes,
           parsedNotes |-> IF steps > 0
                             THEN InversionLoop(parsedNotes, 0, steps, TRUE)
                             ELSE InversionLoop(parsedNotes, 0, -steps, FALSE)]

\* parsed = notes.map(...).sort(...): the sort acts on the array map made.
detectChordNameArrays(notes) ==
  IF Len(notes) = 0 THEN [notes |-> notes, parsed |-> <<>>]
  ELSE [notes |-> notes,
        parsed |-> SortByAbsValue([i \in 1..Len(notes) |-> parseNote(notes[i])])]

\* notes = [root, third, fifth] is a new array; scaleNotes is only read.
getDiatonicChordArrays(scaleNotes, degreeIndex, inversionStrategy) ==
  [scaleNotes |-> scaleNotes,
   notes |-> getDiatonicChord(scaleNotes, degreeIndex, inversionStrategy)]

\* scaleNotes is only read.
getDiatonicChordTypeArrays(scaleNotes, degreeIndex) == [scaleNotes |-> scaleNotes]

(***************************************************************************)
(* Callers.  Each engine function is pure; the state is the call frame of  *)
(* a caller that draws the arguments and applies the function.  A frame    *)
(* that a specification does not use stays Idle.                           *)
(***************************************************************************)

VARIABLES tr, sp, sc, inv, det, dia, rom, fi, cal, ord, bd, eng, app, cof

vars == <<tr, sp, sc, inv, det, dia, rom, fi, cal, ord, bd, eng, app, cof>>

Idle == [pc |-> "idle"]

Letters == {"C", "D", "E", "F", "G", "A", "B"}

Accidentals == {"", "#", "##", "b", "bb"}

\* Every name the grammar accepts.
GrammarNames == {<<l, a>> : l \in Letters, a \in Accidentals}

\* Names the regular expression rejects.
RejectedNames == {<<"H", "">>, <<"C", "###">>, <<"c", "#">>}

(***************************************************************************)
(* transpose                                                               *)
(***************************************************************************)

MaxShift == 13

Shifts == (-MaxShift)..MaxShift

TransposeNotes ==
  {NoteText(n, o) : n \in GrammarNames \cup RejectedNames, o \in {<<>>, <<-1>>, <<0>>, <<4>>}}

InitTranspose ==
  /\ tr \in {[pc |-> "start", note |-> n, a |-> 0, b |-> 0,
              first |-> n, second |-> n, direct |-> n] : n \in TransposeNotes}
  /\ sp = Idle /\ sc = Idle /\ inv = Idle /\ det = Idle /\ dia = Idle /\ rom = Idle /\ fi = Idle
  /\ cal = Idle /\ ord = Idle /\ bd = Idle /\ eng = Idle /\ app = Idle /\ cof = Idle

\* first = transpose(note, a)
TransposeFirst(a) ==
  /\ tr.pc = "start"
  /\ tr' = [tr EXCEPT !.pc = "first", !.a = a, !.first = transpose(tr.note, a)]
  /\ UNCHANGED <<sp, sc, inv, det, dia, rom, fi, cal, ord, bd, eng, app, cof>>

\* second = transpose(first, b), direct = transpose(note, a + b)
TransposeSecond(b) ==
  /\ tr.pc = "first"
  /\ tr' = [tr EXCEPT !.pc = "second", !.b = b,
                      !.second = transpose(tr.first, b),
                      !.direct = transpose(tr.note, tr.a + b)]
  /\ UNCHANGED <<sp, sc, inv, det, dia, rom, fi, cal, ord, bd, eng, app, cof>>

NextTranspose ==
  \/ \E a \in Shifts : TransposeFirst(a)
  \/ \E b \in Shifts : TransposeSecond(b)

SpecTranspose == InitTranspose /\ [][NextTranspose]_vars

(***************************************************************************)
(* spellNote and getNoteIndex                                              *)
(***************************************************************************)

PitchClasses == 0..11

InitSpell ==
  /\ sp \in {[pc |-> "start", targetIndex |-> t, targetLetter |-> l,
              spelled |-> <<"", "">>, index |-> 0] : t \in PitchClasses, l \in Letters}
  /\ tr = Idle /\ sc = Idle /\ inv = Idle /\ det = Idle /\ dia = Idle /\ rom = Idle /\ fi = Idle
  /\ cal = Idle /\ ord = Idle /\ bd = Idle /\ eng = Idle /\ app = Idle /\ cof = Idle

\* spelled = spellNote(targetIndex, targetLetter)
Spell ==
  /\ sp.pc = "start"
  /\ sp' = [sp EXCEPT !.pc = "spelled", !.spelled = spellNote(sp.targetIndex, sp.targetLetter)]
  /\ UNCHANGED <<tr, sc, inv, det, dia, rom, fi, cal, ord, bd, eng, app, cof>>

\* index = getNoteIndex(spelled)
IndexOfSpelled ==
  /\ sp.pc = "spelled"
  /\ sp' = [sp EXCEPT !.pc = "indexed", !.index = getNoteIndex(sp.spelled)]
  /\ UNCHANGED <<tr, sc, inv, det, dia, rom, fi, cal, ord, bd, eng, app, cof>>

NextSpell == Spell \/ IndexOfSpelled

SpecSpell == InitSpell /\ [][NextSpell]_vars

(***************************************************************************)
(* getScaleNotes                                                           *)
(***************************************************************************)

MaxOctaves == 2

ScaleRoots ==
  {NoteText(n, o) : n \in GrammarNames \cup RejectedNames, o \in {<<>>, <<3>>, <<4>>}}

InitScale ==
  /\ sc \in {[pc |-> "start", root |-> r, mode |-> m, octaves |-> k, notes |-> <<>>] :
               r \in ScaleRoots, m \in ScaleMode, k \in 0..MaxOctaves}
  /\ tr = Idle /\ sp = Idle /\ inv = Idle /\ det = Idle /\ dia = Idle /\ rom = Idle /\ fi = Idle
  /\ cal = Idle /\ ord = Idle /\ bd = Idle /\ eng = Idle /\ app = Idle /\ cof = Idle

\* notes = getScaleNotes(root, mode, octaves)
GenerateScale ==
  /\ sc.pc = "start"
  /\ sc' = [sc EXCEPT !.pc = "generated",
                      !.notes = getScaleNotes(sc.root, sc.mode, sc.octaves)]
  /\ UNCHANGED <<tr, sp, inv, det, dia, rom, fi, cal, ord, bd, eng, app, cof>>

MaxBelow == 2

MaxDegree == 14

DegreeIndexes == (0 - MaxBelow)..MaxDegree

\* type = getDiatonicChordType(notes, d)
ChordTypeAt(d) ==
  /\ sc.pc = "generated" /\ dia = Idle
  /\ dia' = [pc |-> "typed", degreeIndex |-> d,
             type |-> getDiatonicChordType(sc.notes, d)]
  /\ UNCHANGED <<tr, sp, sc, inv, det, rom, fi, cal, ord, bd, eng, app, cof>>

\* notes = getDiatonicChord(notes, d, inversionStrategy)
DiatonicChordAt(d, inversionStrategy) ==
  /\ sc.pc = "generated" /\ dia = Idle
  /\ dia' = [pc |-> "chorded", degreeIndex |-> d,
             inversionStrategy |-> inversionStrategy,
             notes |-> getDiatonicChord(sc.notes, d, inversionStrategy)]
  /\ UNCHANGED <<tr, sp, sc, inv, det, rom, fi, cal, ord, bd, eng, app, cof>>

NextScale ==
  \/ GenerateScale
  \/ \E d \in DegreeIndexes : ChordTypeAt(d)
  \/ \E d \in DegreeIndexes, f \in BOOLEAN : DiatonicChordAt(d, f)

SpecScale == InitScale /\ [][NextScale]_vars

(***************************************************************************)
(* applyGenericInversion                                                   *)
(***************************************************************************)

MaxChordLen == 3

MaxSteps == 3

InversionSteps == (-MaxSteps)..MaxSteps

\* Accepted texts in several spellings and octaves (Cb4 and B#3 are the enharmonic
\* names the codec reads as B4 and C3), a text without octave, a rejected text.
InversionNotes ==
  { NoteText(<<"C", "">>, <<4>>), NoteText(<<"G", "#">>, <<4>>),
    NoteText(<<"C", "b">>, <<4>>), NoteText(<<"B", "#">>, <<3>>),
    NoteText(<<"D", "">>, <<6>>), NoteText(<<"F", "##">>, <<>>),
    NoteText(<<"H", "">>, <<2>>) }

RECURSIVE SeqsUpTo(_, _)
SeqsUpTo(S, n) ==
  IF n = 0 THEN {<<>>}
  ELSE LET shorter == SeqsUpTo(S, n - 1)
       IN shorter \cup {Append(q, x) : q \in {r \in shorter : Len(r) = n - 1}, x \in S}

InitInversion ==
  /\ inv \in {[pc |-> "start", notes |-> c, steps |-> 0, out |-> <<>>,
               steps2 |-> 0, out2 |-> <<>>] : c \in SeqsUpTo(InversionNotes, MaxChordLen)}
  /\ tr = Idle /\ sp = Idle /\ sc = Idle /\ det = Idle /\ dia = Idle /\ rom = Idle /\ fi = Idle
  /\ cal = Idle /\ ord = Idle /\ bd = Idle /\ eng = Idle /\ app = Idle /\ cof = Idle

\* out = applyGenericInversion(notes, k)
Invert(k) ==
  /\ inv.pc = "start"
  /\ inv' = [inv EXCEPT !.pc = "first", !.steps = k,
                        !.out = applyGenericInversion(inv.notes, k)]
  /\ UNCHANGED <<tr, sp, sc, det, dia, rom, fi, cal, ord, bd, eng, app, cof>>

\* out2 = applyGenericInversion(out, k), an independent second call on the result
InvertAgain(k) ==
  /\ inv.pc = "first"
  /\ inv' = [inv EXCEPT !.pc = "second", !.steps2 = k,
                        !.out2 = applyGenericInversion(inv.out, k)]
  /\ UNCHANGED <<tr, sp, sc, det, dia, rom, fi, cal, ord, bd, eng, app, cof>>

NextInversion ==
  \/ \E k \in InversionSteps : Invert(k)
  \/ \E k \in InversionSteps : InvertAgain(k)

SpecInversion == InitInversion /\ [][NextInversion]_vars

(***************************************************************************)
(* detectChordName                                                         *)
(***************************************************************************)

MaxDetectLen == 3

\* The notes of the documented examples, sharp and flat spellings of the same keys
\* (C#4 and Db4 have one absolute value), and enough keys for every signature.
DetectNotes ==
  { NoteText(<<"C", "">>, <<4>>), NoteText(<<"E", "">>, <<4>>),
    NoteText(<<"G", "">>, <<4>>), NoteText(<<"B", "b">>, <<4>>),
    NoteText(<<"C", "">>, <<5>>), NoteText(<<"A", "">>, <<3>>),
    NoteText(<<"F", "">>, <<4>>), NoteText(<<"C", "#">>, <<4>>),
    NoteText(<<"G", "#">>, <<4>>), NoteText(<<"D", "b">>, <<4>>) }

InitDetect ==
  /\ det \in {[pc |-> "start", notes |-> c, label |-> EmptyLabel,
               notes2 |-> <<>>, label2 |-> EmptyLabel] :
                 c \in SeqsUpTo(DetectNotes, MaxDetectLen)}
  /\ tr = Idle /\ sp = Idle /\ sc = Idle /\ inv = Idle /\ dia = Idle /\ rom = Idle /\ fi = Idle
  /\ cal = Idle /\ ord = Idle /\ bd = Idle /\ eng = Idle /\ app = Idle /\ cof = Idle

\* label = detectChordName(notes)
Detect ==
  /\ det.pc = "start"
  /\ det' = [det EXCEPT !.pc = "detected", !.label = detectChordName(det.notes)]
  /\ UNCHANGED <<tr, sp, sc, inv, dia, rom, fi, cal, ord, bd, eng, app, cof>>

\* label2 = detectChordName(notes2), notes2 being notes with one more note n
DetectWith(n) ==
  /\ det.pc = "detected"
  /\ det' = [det EXCEPT !.pc = "extended", !.notes2 = Append(det.notes, n),
                        !.label2 = detectChordName(Append(det.notes, n))]
  /\ UNCHANGED <<tr, sp, sc, inv, dia, rom, fi, cal, ord, bd, eng, app, cof>>

NextDetect ==
  \/ Detect
  \/ \E n \in DetectNotes : DetectWith(n)

SpecDetect == InitDetect /\ [][NextDetect]_vars

(***************************************************************************)
(* getRomanNumeral                                                         *)
(***************************************************************************)

MaxNumeralDegree == 9

NumeralDegrees == (0 - MaxBelow)..MaxNumeralDegree

InitRoman ==
  /\ rom \in {[pc |-> "start", degree |-> d, type |-> t, numeral |-> NumeralText("", "")] :
                d \in NumeralDegrees, t \in ChordType}
  /\ tr = Idle /\ sp = Idle /\ sc = Idle /\ inv = Idle /\ det = Idle /\ dia = Idle /\ fi = Idle
  /\ cal = Idle /\ ord = Idle /\ bd = Idle /\ eng = Idle /\ app = Idle /\ cof = Idle

\* numeral = getRomanNumeral(degree, type)
Numeral ==
  /\ rom.pc = "start"
  /\ rom' = [rom EXCEPT !.pc = "done", !.numeral = getRomanNumeral(rom.degree, rom.type)]
  /\ UNCHANGED <<tr, sp, sc, inv, det, dia, fi, cal, ord, bd, eng, app, cof>>

NextRoman == Numeral

SpecRoman == InitRoman /\ [][NextRoman]_vars

(***************************************************************************)
(* getNoteFromIndex and parseNote                                          *)
(***************************************************************************)

MaxIndex == 30

Indexes == (0 - MaxIndex)..MaxIndex

OctaveBases == {-1, 0, 4}

InitFromIndex ==
  /\ fi \in {[pc |-> "start", index |-> i, octave |-> o,
              note |-> NoteText(<<"C", "">>, <<>>), absValue |-> 0] :
               i \in Indexes, o \in OctaveBases}
  /\ tr = Idle /\ sp = Idle /\ sc = Idle /\ inv = Idle /\ det = Idle /\ dia = Idle /\ rom = Idle
  /\ cal = Idle /\ ord = Idle /\ bd = Idle /\ eng = Idle /\ app = Idle /\ cof = Idle

\* note = getNoteFromIndex(index, octave)
NoteFromIndex ==
  /\ fi.pc = "start"
  /\ fi' = [fi EXCEPT !.pc = "rendered", !.note = getNoteFromIndex(fi.index, fi.octave)]
  /\ UNCHANGED <<tr, sp, sc, inv, det, dia, rom, cal, ord, bd, eng, app, cof>>

\* absValue = parseNote(note).absValue
ParseBack ==
  /\ fi.pc = "rendered"
  /\ fi' = [fi EXCEPT !.pc = "parsed", !.absValue = parseNote(fi.note).absValue]
  /\ UNCHANGED <<tr, sp, sc, inv, det, dia, rom, cal, ord, bd, eng, app, cof>>

NextFromIndex == NoteFromIndex \/ ParseBack

SpecFromIndex == InitFromIndex /\ [][NextFromIndex]_vars

(***************************************************************************)
(* A caller that passes one list to an engine function                     *)
(***************************************************************************)

MaxCallLen == 3

\* Keys for every triad quality (C E G, C Eb G, C Eb Gb, C E G#).
CallNotes ==
  { NoteText(<<"C", "">>, <<4>>), NoteText(<<"E", "">>, <<4>>),
    NoteText(<<"E", "b">>, <<4>>), NoteText(<<"G", "">>, <<4>>),
    NoteText(<<"G", "#">>, <<4>>), NoteText(<<"G", "b">>, <<4>>) }

InitCallers ==
  /\ cal \in {[pc |-> "start", notes |-> c, passed |-> c, fn |-> "", arg |-> 0,
               flag |-> FALSE, result |-> <<>>] : c \in SeqsUpTo(CallNotes, MaxCallLen)}
  /\ tr = Idle /\ sp = Idle /\ sc = Idle /\ inv = Idle /\ det = Idle /\ dia = Idle
  /\ rom = Idle /\ fi = Idle /\ ord = Idle /\ bd = Idle /\ eng = Idle /\ app = Idle /\ cof = Idle

\* result = applyGenericInversion(notes, k)
CallInversion(k) ==
  /\ cal.pc = "start"
  /\ cal' = [cal EXCEPT !.pc = "returned", !.fn = "applyGenericInversion", !.arg = k,
                        !.notes = applyGenericInversionArrays(cal.notes, k).notes,
                        !.result = applyGenericInversion(cal.notes, k)]
  /\ UNCHANGED <<tr, sp, sc, inv, det, dia, rom, fi, ord, bd, eng, app, cof>>

\* result = detectChordName(notes)
CallDetect ==
  /\ cal.pc = "start"
  /\ cal' = [cal EXCEPT !.pc = "returned", !.fn = "detectChordName",
                        !.notes = detectChordNameArrays(cal.notes).notes,
                        !.result = detectChordName(cal.notes)]
  /\ UNCHANGED <<tr, sp, sc, inv, det, dia, rom, fi, ord, bd, eng, app, cof>>

\* result = getDiatonicChord(notes, d, inversionStrategy)
CallDiatonicChord(d, inversionStrategy) ==
  /\ cal.pc = "start"
  /\ cal' = [cal EXCEPT !.pc = "returned", !.fn = "getDiatonicChord", !.arg = d,
                        !.flag = inversionStrategy,
                        !.notes = getDiatonicChordArrays(cal.notes, d,
                                                         inversionStrategy).scaleNotes,
                        !.result = getDiatonicChord(cal.notes, d, inversionStrategy)]
  /\ UNCHANGED <<tr, sp, sc, inv, det, dia, rom, fi, ord, bd, eng, app, cof>>

\* result = getDiatonicChordType(notes, d)
CallDiatonicChordType(d) ==
  /\ cal.pc = "start"
  /\ cal' = [cal EXCEPT !.pc = "returned", !.fn = "getDiatonicChordType", !.arg = d,
                        !.notes = getDiatonicChordTypeArrays(cal.notes, d).scaleNotes,
                        !.result = getDiatonicChordType(cal.notes, d)]
  /\ UNCHANGED <<tr, sp, sc, inv, det, dia, rom, fi, ord, bd, eng, app, cof>>

NextCallers ==
  \/ \E k \in InversionSteps : CallInversion(k)
  \/ CallDetect
  \/ \E d \in DegreeIndexes, f \in BOOLEAN : CallDiatonicChord(d, f)
  \/ \E d \in DegreeIndexes : CallDiatonicChordType(d)

SpecCallers == InitCallers /\ [][NextCallers]_vars

(***************************************************************************)
(* getChordNotes, then detectChordName on its result                       *)
(***************************************************************************)

\* Every pitch class under its sharp name and under its preferred name, in octaves 3, 4.
BuildRoots ==
  {NoteText(At(NOTES, p), <<o>>) : p \in PitchClasses, o \in {3, 4}}
    \cup {NoteText(At(PREFERRED_ROOT_NAMES, p), <<o>>) : p \in PitchClasses, o \in {3, 4}}

InitBuild ==
  /\ bd \in {[pc |-> "start", root |-> r, type |-> t, notes |-> <<>>, label |-> EmptyLabel] :
               r \in BuildRoots, t \in ChordType}
  /\ tr = Idle /\ sp = Idle /\ sc = Idle /\ inv = Idle /\ det = Idle /\ dia = Idle
  /\ rom = Idle /\ fi = Idle /\ cal = Idle /\ ord = Idle /\ eng = Idle /\ app = Idle /\ cof = Idle

\* notes = getChordNotes(root, type, 0)
BuildChord ==
  /\ bd.pc = "start"
  /\ bd' = [bd EXCEPT !.pc = "built", !.notes = getChordNotes(bd.root, bd.type, 0)]
  /\ UNCHANGED <<tr, sp, sc, inv, det, dia, rom, fi, cal, ord, eng, app, cof>>

\* label = detectChordName(notes)
DetectBuilt ==
  /\ bd.pc = "built"
  /\ bd' = [bd EXCEPT !.pc = "detected", !.label = detectChordName(bd.notes)]
  /\ UNCHANGED <<tr, sp, sc, inv, det, dia, rom, fi, cal, ord, eng, app, cof>>

NextBuild == BuildChord \/ DetectBuilt

SpecBuild == InitBuild /\ [][NextBuild]_vars

(***************************************************************************)
(* detectChordName on a list and on the same list in another order         *)
(***************************************************************************)

MaxOrderLen == 4

\* Two spellings of one key (C#4 and Db4 have one absolute value) and the rest of its
\* major triad.
OrderNotes ==
  { NoteText(<<"C", "#">>, <<4>>), NoteText(<<"D", "b">>, <<4>>),
    NoteText(<<"F", "">>, <<4>>), NoteText(<<"G", "#">>, <<4>>) }

\* The orders of n positions.
Orders(n) == {p \in [1..n -> 1..n] : \A i, j \in 1..n : p[i] = p[j] => i = j}

InitOrder ==
  /\ ord \in {[pc |-> "start", notes |-> c, label |-> EmptyLabel,
               reordered |-> c, label2 |-> EmptyLabel] :
                 c \in SeqsUpTo(OrderNotes, MaxOrderLen)}
  /\ tr = Idle /\ sp = Idle /\ sc = Idle /\ inv = Idle /\ det = Idle /\ dia = Idle
  /\ rom = Idle /\ fi = Idle /\ cal = Idle /\ bd = Idle /\ eng = Idle /\ app = Idle /\ cof = Idle

\* label = detectChordName(notes); label2 = detectChordName(reordered)
DetectBothOrders(p) ==
  /\ ord.pc = "start"
  /\ LET reordered == [i \in 1..Len(ord.notes) |-> ord.notes[p[i]]]
     IN ord' = [ord EXCEPT !.pc = "detected", !.reordered = reordered,
                           !.label = detectChordName(ord.notes),
                           !.label2 = detectChordName(reordered)]
  /\ UNCHANGED <<tr, sp, sc, inv, det, dia, rom, fi, cal, bd, eng, app, cof>>

NextOrder == \E p \in Orders(Len(ord.notes)) : DetectBothOrders(p)

SpecOrder == InitOrder /\ [][NextOrder]_vars

(***************************************************************************)
(* AudioEngine.setInstrument, for one role.  The instruments ever created  *)
(* are numbered in order of creation; number 1 is the synth the            *)
(* constructor makes.  A call for 'piano' stops at  await Tone.loaded()    *)
(* and goes on later; a call for 'synth' has no await and runs through.    *)
(***************************************************************************)

MaxCalls == 4

InstrumentType == {"synth", "piano"}

InitEngine ==
  /\ eng = [pc |-> "running", melodyInstrument |-> 1,
            created |-> <<[type |-> "synth", disposed |-> 0]>>,
            calls |-> <<>>]
  /\ tr = Idle /\ sp = Idle /\ sc = Idle /\ inv = Idle /\ det = Idle /\ dia = Idle
  /\ rom = Idle /\ fi = Idle /\ cal = Idle /\ ord = Idle /\ bd = Idle /\ app = Idle
  /\ cof = Idle

\* oldInstrument.dispose()
Dispose(created, i) == [created EXCEPT ![i].disposed = @ + 1]

\* setInstrument('melody', 'synth'): from the first line to the last without a pause.
SetInstrumentSynth ==
  /\ eng.pc = "running" /\ Len(eng.calls) < MaxCalls
  /\ LET oldInstrument == eng.melodyInstrument
         newInstrument == Len(eng.created) + 1
         created == Append(eng.created, [type |-> "synth", disposed |-> 0])
     IN eng' = [eng EXCEPT !.melodyInstrument = newInstrument,
                           !.created = Dispose(created, oldInstrument),
                           !.calls = Append(@, [type |-> "synth", pc |-> "done",
                                                oldInstrument |-> oldInstrument,
                                                newInstrument |-> newInstrument])]
  /\ UNCHANGED <<tr, sp, sc, inv, det, dia, rom, fi, cal, ord, bd, app, cof>>

\* setInstrument('melody', 'piano') up to  await Tone.loaded().
SetInstrumentPiano ==
  /\ eng.pc = "running" /\ Len(eng.calls) < MaxCalls
  /\ LET oldInstrument == eng.melodyInstrument
         newInstrument == Len(eng.created) + 1
     IN eng' = [eng EXCEPT !.created = Append(@, [type |-> "piano", disposed |-> 0]),
                           !.calls = Append(@, [type |-> "piano", pc |-> "await",
                                                oldInstrument |-> oldInstrument,
                                                newInstrument |-> newInstrument])]
  /\ UNCHANGED <<tr, sp, sc, inv, det, dia, rom, fi, cal, ord, bd, app, cof>>

\* Call c goes on after the await: connect, swap, dispose the old instrument it read.
ResumeAfterLoaded(c) ==
  /\ eng.pc = "running" /\ c \in 1..Len(eng.calls) /\ eng.calls[c].pc = "await"
  /\ eng' = [eng EXCEPT !.melodyInstrument = eng.calls[c].newInstrument,
                        !.created = Dispose(@, eng.calls[c].oldInstrument),
                        !.calls[c].pc = "done"]
  /\ UNCHANGED <<tr, sp, sc, inv, det, dia, rom, fi, cal, ord, bd, app, cof>>

NextEngine ==
  \/ SetInstrumentSynth
  \/ SetInstrumentPiano
  \/ \E c \in 1..MaxCalls : ResumeAfterLoaded(c)

SpecEngine == InitEngine /\ [][NextEngine]_vars

(***************************************************************************)
(* The root note under the D-pad: App's rootNoteIndex, with the presses    *)
(* made so far and the roots they went through.                            *)
(***************************************************************************)

MaxPresses == 12

InitCircle ==
  /\ cof \in {[pc |-> "running", rootNoteIndex |-> i, presses |-> <<>>, roots |-> <<i>>] :
                i \in PitchClasses}
  /\ tr = Idle /\ sp = Idle /\ sc = Idle /\ inv = Idle /\ det = Idle /\ dia = Idle
  /\ rom = Idle /\ fi = Idle /\ cal = Idle /\ ord = Idle /\ bd = Idle /\ eng = Idle
  /\ app = Idle

\* setRootNoteIndex(i => getNextRootCircleOfFifths(i, direction))
DpadPress(direction) ==
  /\ cof.pc = "running" /\ Len(cof.presses) < MaxPresses
  /\ LET next == getNextRootCircleOfFifths(cof.rootNoteIndex, direction)
     IN cof' = [cof EXCEPT !.rootNoteIndex = next,
                           !.presses = Append(@, direction),
                           !.roots = Append(@, next)]
  /\ UNCHANGED <<tr, sp, sc, inv, det, dia, rom, fi, cal, ord, bd, eng, app>>

\* D-pad up
DpadUp == DpadPress(1)

\* D-pad down
DpadDown == DpadPress(-1)

NextCircle == DpadUp \/ DpadDown

SpecCircle == InitCircle /\ [][NextCircle]_vars

(***************************************************************************)
(* App: the wheels and the triggers.  null is <<>>, a value v is <<v>>.    *)
(* Of a label only sub, the text the triggers read, is modelled; main is   *)
(* display text.  Buttons are taken with both triggers released: what a    *)
(* held trigger sounds after a press is what a new pull sounds.            *)
(***************************************************************************)

SCALE_MODES ==
  <<"Chromatic", "Lydian", "Ionian", "Mixolydian", "Dorian", "Aeolian", "Phrygian",
    "Locrian">>

fixedSlots == <<"C", "D", "E", "F", "G", "A", "B">>

\* The label texts 'Maj' and '': neither begins with a letter A-G.
MajText == <<"M", "aj">>

EmptyText == <<"", "">>

\* The modifiers of the face buttons A, Y, X, B, and none held.
Modifiers == {"none", "min", "maj", "dim", "sus4"}

MaxOffset == 1

\* scaleNotes (lines 80-85)
AppScaleNotes(rootNoteIndex, currentMode) ==
  IF currentMode = "Chromatic"
    THEN [i \in 1..Len(NOTES) |-> NoteText(NOTES[i], <<4>>)]
    ELSE getScaleNotes(NoteText(At(PREFERRED_ROOT_NAMES, rootNoteIndex), <<4>>),
                       currentMode, 1)

\* The sub of the label notes.forEach leaves in one slot: the name of the last note
\* whose letter is the slot's, '' when there is none.
RECURSIVE SlotSub(_, _, _)
SlotSub(notes, k, letter) ==
  IF k = 0 THEN EmptyText
  ELSE IF notes[k].name[1] = letter THEN notes[k].name
  ELSE SlotSub(notes, k - 1, letter)

\* The subs of getScaleLabels(notes, isChordWheel).  In Chromatic mode a label is
\* { main: n, sub: isChordWheel ? 'Maj' : '' }.
getScaleLabels(notes, currentMode, isChordWheel) ==
  IF currentMode = "Chromatic"
    THEN [i \in 1..Len(NOTES) |-> IF isChordWheel THEN MajText ELSE EmptyText]
    ELSE [i \in 1..Len(fixedSlots) |-> SlotSub(notes, Len(notes), fixedSlots[i])]

\* n.startsWith(label): the same first character and the rest of the label a prefix
\* of what follows; an octave begins with a digit, a label holds none.
StartsWith(note, label) ==
  /\ note.name[1] = label[1]
  /\ \/ label[2] = ""
     \/ label[2] = note.name[2]
     \/ label[2] = "#" /\ note.name[2] = "##"
     \/ label[2] = "b" /\ note.name[2] = "bb"

\* scaleNotes.findIndex(n => n.startsWith(label)), from position k on.
RECURSIVE FindIndexFrom(_, _, _)
FindIndexFrom(notes, label, k) ==
  IF k >= Len(notes) THEN -1
  ELSE IF StartsWith(At(notes, k), label) THEN k
  ELSE FindIndexFrom(notes, label, k + 1)

\* scaleNotes.find(n => n.startsWith(label)) || label + '4'
FindOrFallback(notes, label) ==
  LET i == FindIndexFrom(notes, label, 0)
  IN IF i # -1 THEN At(notes, i) ELSE NoteText(label, <<4>>)

\* Step 3 of the input loop with the right trigger pulled: the new playingNote.
NoteToPlay(a, noteIdx) ==
  LET currentMode == At(SCALE_MODES, a.scaleModeIndex)
      scaleNotes == AppScaleNotes(a.rootNoteIndex, currentMode)
      selectedLabel == At(getScaleLabels(scaleNotes, currentMode, FALSE), noteIdx)
  IN IF selectedLabel # EmptyText
       THEN <<FindOrFallback(scaleNotes, selectedLabel)>>
       ELSE a.playingNote

\* Step 4 with the left trigger pulled: rootForChord and the new playingChord.
ChordToPlay(a, chordIdx) ==
  LET currentMode == At(SCALE_MODES, a.scaleModeIndex)
      scaleNotes == AppScaleNotes(a.rootNoteIndex, currentMode)
      selectedLabel == At(getScaleLabels(scaleNotes, currentMode, TRUE), chordIdx)
      rootForChord == FindOrFallback(scaleNotes, selectedLabel)
      degreeIndex == FindIndexFrom(scaleNotes, selectedLabel, 0)
      currentRootWithOctave == NoteText(At(PREFERRED_ROOT_NAMES, a.rootNoteIndex), <<4>>)
      baseChord ==
        IF a.activeChordType # "none"
          THEN getChordNotes(rootForChord, a.activeChordType, 0)
          ELSE IF currentMode = "Chromatic"
                 THEN getChordNotes(rootForChord, "maj", 0)
                 ELSE getDiatonicChord(getScaleNotes(currentRootWithOctave, currentMode, 2),
                                       degreeIndex, TRUE)
  IN IF selectedLabel # EmptyText /\ (degreeIndex # -1 \/ currentMode = "Chromatic")
       THEN [rootForChord |-> <<rootForChord>>,
             playingChord |-> <<applyGenericInversion(baseChord, a.chordInversionOffset)>>]
       ELSE [rootForChord |-> IF selectedLabel # EmptyText THEN <<rootForChord>> ELSE <<>>,
             playingChord |-> a.playingChord]

\* sliceCount = chordLabels.length
sliceCount(a) == IF At(SCALE_MODES, a.scaleModeIndex) = "Chromatic" THEN 12 ELSE 7

InitApp ==
  /\ app = [pc |-> "running", rootNoteIndex |-> 0, scaleModeIndex |-> 2,
            chordInversionOffset |-> 0, activeChordType |-> "none",
            selectedNoteIndex |-> <<>>, selectedChordIndex |-> <<>>,
            playingNote |-> <<>>, playingChord |-> <<>>, rootForChord |-> <<>>]
  /\ tr = Idle /\ sp = Idle /\ sc = Idle /\ inv = Idle /\ det = Idle /\ dia = Idle
  /\ rom = Idle /\ fi = Idle /\ cal = Idle /\ ord = Idle /\ bd = Idle /\ eng = Idle
  /\ cof = Idle

TriggersReleased ==
  /\ app.pc = "running"
  /\ app.selectedNoteIndex = <<>> /\ app.selectedChordIndex = <<>>
  /\ app.playingNote = <<>> /\ app.playingChord = <<>>

\* D-pad up / down: the root moves round the circle of fifths.
PressDpadRoot(direction) ==
  /\ TriggersReleased
  /\ app' = [app EXCEPT !.rootNoteIndex = getNextRootCircleOfFifths(@, direction)]
  /\ UNCHANGED <<tr, sp, sc, inv, det, dia, rom, fi, cal, ord, bd, eng, cof>>

\* D-pad left / right: the inversion offset.
PressDpadOffset(step) ==
  /\ TriggersReleased
  /\ app.chordInversionOffset + step \in (0 - MaxOffset)..MaxOffset
  /\ app' = [app EXCEPT !.chordInversionOffset = @ + step]
  /\ UNCHANGED <<tr, sp, sc, inv, det, dia, rom, fi, cal, ord, bd, eng, cof>>

\* Bumpers: the next or the previous mode.
PressBumper(step) ==
  /\ TriggersReleased
  /\ app' = [app EXCEPT !.scaleModeIndex = JsMod(@ + step + Len(SCALE_MODES),
                                                 Len(SCALE_MODES))]
  /\ UNCHANGED <<tr, sp, sc, inv, det, dia, rom, fi, cal, ord, bd, eng, cof>>

\* Face buttons: setActiveChordType(modifier)
HoldFaceButton(modifier) ==
  /\ TriggersReleased
  /\ app' = [app EXCEPT !.activeChordType = modifier]
  /\ UNCHANGED <<tr, sp, sc, inv, det, dia, rom, fi, cal, ord, bd, eng, cof>>

\* The right stick on slot noteIdx and the right trigger pulled.
PullRightTrigger(noteIdx) ==
  /\ TriggersReleased /\ noteIdx < sliceCount(app)
  /\ app' = [app EXCEPT !.selectedNoteIndex = <<noteIdx>>,
                        !.playingNote = NoteToPlay(app, noteIdx)]
  /\ UNCHANGED <<tr, sp, sc, inv, det, dia, rom, fi, cal, ord, bd, eng, cof>>

\* The left stick on slot chordIdx and the left trigger pulled.
PullLeftTrigger(chordIdx) ==
  /\ TriggersReleased /\ chordIdx < sliceCount(app)
  /\ app' = [app EXCEPT !.selectedChordIndex = <<chordIdx>>,
                        !.rootForChord = ChordToPlay(app, chordIdx).rootForChord,
                        !.playingChord = ChordToPlay(app, chordIdx).playingChord]
  /\ UNCHANGED <<tr, sp, sc, inv, det, dia, rom, fi, cal, ord, bd, eng, cof>>

\* Sticks centred and triggers let go: nothing selected, nothing sounding.
ReleaseTriggers ==
  /\ app.pc = "running" /\ ~TriggersReleased
  /\ app' = [app EXCEPT !.selectedNoteIndex = <<>>, !.selectedChordIndex = <<>>,
                        !.playingNote = <<>>, !.playingChord = <<>>,
                        !.rootForChord = <<>>]
  /\ UNCHANGED <<tr, sp, sc, inv, det, dia, rom, fi, cal, ord, bd, eng, cof>>

NextApp ==
  \/ \E direction \in {1, -1} : PressDpadRoot(direction)
  \/ \E step \in {1, -1} : PressDpadOffset(step)
  \/ \E step \in {1, -1} : PressBumper(step)
  \/ \E modifier \in Modifiers : HoldFaceButton(modifier)
  \/ \E noteIdx \in 0..11 : PullRightTrigger(noteIdx)
  \/ \E chordIdx \in 0..11 : PullLeftTrigger(chordIdx)
  \/ ReleaseTriggers

SpecApp == InitApp /\ [][NextApp]_vars

(***************************************************************************)
(* What the claims speak of, stated apart from the code                    *)
(***************************************************************************)

\* The natural pitch class of a letter: C=0, D=2, E=4, F=5, G=7, A=9, B=11.
NaturalPitchClass(l) ==
  CASE l = "C" -> 0 [] l = "D" -> 2 [] l = "E" -> 4 [] l = "F" -> 5
    [] l = "G" -> 7 [] l = "A" -> 9 [] l = "B" -> 11

AccidentalShift(a) ==
  CASE a = "" -> 0 [] a = "#" -> 1 [] a = "##" -> 2 [] a = "b" -> -1 [] a = "bb" -> -2

GrammarAccepts(note) == note.name \in GrammarNames

\* Pitch class of an accepted name, in 0..11.
PitchClassOfName(name) == (NaturalPitchClass(name[1]) + AccidentalShift(name[2])) % 12

\* Absolute value of an accepted note text: octave * 12 + pitch class, octave 4 by default.
AbsValueOf(note) ==
  (IF note.oct = <<>> THEN 4 ELSE note.oct[1]) * 12 + PitchClassOfName(note.name)

\* The letter's natural pitch class is within two semitones of pc, modulo 12.
WithinDoubleAccidental(pc, letter) ==
  \E d \in -2..2 : (NaturalPitchClass(letter) + d) % 12 = pc

(***************************************************************************)
(* C3.  For every note name n the grammar accepts and all integers a, b:   *)
(* transpose(n, a) has the absolute value of n plus a, and                 *)
(* transpose(transpose(n, a), b) has the same absolute value as            *)
(* transpose(n, a + b).                                                    *)
(***************************************************************************)
C3_TransposeGroupLaw ==
  GrammarAccepts(tr.note) =>
    /\ tr.pc \in {"first", "second"} =>
         /\ GrammarAccepts(tr.first)
         /\ AbsValueOf(tr.first) = AbsValueOf(tr.note) + tr.a
    /\ tr.pc = "second" =>
         /\ GrammarAccepts(tr.second) /\ GrammarAccepts(tr.direct)
         /\ AbsValueOf(tr.second) = AbsValueOf(tr.direct)
         /\ AbsValueOf(tr.second) = AbsValueOf(tr.note) + tr.a + tr.b

\* Two shifts of opposite sign that pass below absolute value 0 and back.
C3_Witness ==
  /\ tr.pc = "second"
  /\ tr.note = NoteText(<<"C", "b">>, <<0>>)
  /\ tr.a = -MaxShift /\ tr.b = 2
  /\ AbsValueOf(tr.first) < 0
  /\ tr.second = NoteText(<<"C", "">>, <<0>>)

(***************************************************************************)
(* C4.  For every pitch class pc and every letter whose natural pitch      *)
(* class is within two semitones of pc (mod 12), spellNote(pc, letter)     *)
(* starts with that letter and getNoteIndex of it is pc.                   *)
(***************************************************************************)
C4_SpellRoundTrip ==
  WithinDoubleAccidental(sp.targetIndex, sp.targetLetter) =>
    /\ sp.pc \in {"spelled", "indexed"} =>
         /\ sp.spelled[1] = sp.targetLetter
         /\ sp.spelled \in GrammarNames
    /\ sp.pc = "indexed" => sp.index = sp.targetIndex

\* A spelling across the B/C boundary: pitch class 0 on the letter B is B#.
C4_Witness ==
  /\ sp.pc = "indexed"
  /\ sp.targetIndex = 0 /\ sp.targetLetter = "B"
  /\ sp.spelled = <<"B", "#">>
  /\ sp.index = 0

(***************************************************************************)
(* C5.  For every root, every mode and every octave count k >= 1,          *)
(* getScaleNotes(root, mode, k) has exactly 7*k elements in a diatonic     *)
(* mode and exactly 12*k elements in Chromatic.                            *)
(***************************************************************************)
C5_ScaleCardinality ==
  (sc.pc = "generated" /\ sc.octaves >= 1) =>
    Len(sc.notes) = (IF sc.mode \in DiatonicModes THEN 7 ELSE 12) * sc.octaves

\* A chromatic scale over the largest octave count, from a root the grammar rejects.
C5_Witness ==
  /\ sc.pc = "generated"
  /\ sc.mode = "Chromatic"
  /\ sc.octaves = MaxOctaves
  /\ sc.root.name \in RejectedNames
  /\ Len(sc.notes) = 12 * MaxOctaves

\* The first characters of the k-th block of seven notes (k from 0).
BlockLetters(notes, k) == [d \in 1..7 |-> notes[7 * k + d].name[1]]

(***************************************************************************)
(* C6.  For every root the grammar accepts (any letter with none, #, ##,   *)
(* b or bb) and every diatonic mode, each block of 7 consecutive notes of  *)
(* getScaleNotes uses each of C, D, E, F, G, A, B exactly once as its      *)
(* first character.                                                        *)
(***************************************************************************)
C6_SevenLettersOnce ==
  (sc.pc = "generated" /\ sc.mode \in DiatonicModes /\ GrammarAccepts(sc.root)) =>
    \A k \in 0..(sc.octaves - 1) :
      \A l \in Letters :
        Cardinality({d \in 1..7 : BlockLetters(sc.notes, k)[d] = l}) = 1

\* C6 as it holds: the same for roots with at most one accidental character (any
\* letter with none, # or b); a root with ## or bb can need a triple accidental, and
\* the fixed sharp spelling spellNote then falls back to repeats or skips letters.
C6_SevenLettersOnceSingleAccidental ==
  (sc.pc = "generated" /\ sc.mode \in DiatonicModes /\ GrammarAccepts(sc.root)
     /\ sc.root.name[2] \in {"", "#", "b"}) =>
    \A k \in 0..(sc.octaves - 1) :
      \A l \in Letters :
        Cardinality({d \in 1..7 : BlockLetters(sc.notes, k)[d] = l}) = 1

\* B# Ionian over two octaves: B#, C##, D##, E#, F##, G##, A##, every letter once.
C6_Witness ==
  /\ sc.pc = "generated"
  /\ sc.root.name = <<"B", "#">> /\ sc.mode = "Ionian" /\ sc.octaves = 2
  /\ BlockLetters(sc.notes, 1) = <<"B", "C", "D", "E", "F", "G", "A">>
  /\ sc.notes[2].name = <<"C", "##">>

\* Pitch class of a note text as the engine reads it: a rejected text counts as C4.
PitchClassOf(note) == IF GrammarAccepts(note) THEN PitchClassOfName(note.name) ELSE 0

\* The multiset of pitch classes of a list of note texts.
PitchClassBag(notes) ==
  [p \in PitchClasses |-> Cardinality({i \in 1..Len(notes) : PitchClassOf(notes[i]) = p})]

(***************************************************************************)
(* C1.  For every non-empty list of notes and every integer steps,         *)
(* applyGenericInversion(notes, steps) has the same number of notes and    *)
(* the same multiset of pitch classes as the input.                        *)
(***************************************************************************)
C1_InversionKeepsPitchClasses ==
  (inv.pc \in {"first", "second"} /\ inv.notes # <<>>) =>
    /\ Len(inv.out) = Len(inv.notes)
    /\ PitchClassBag(inv.out) = PitchClassBag(inv.notes)

\* More steps than notes, so that a note is moved twice, on enharmonic spellings.
C1_Witness ==
  /\ inv.pc = "first"
  /\ inv.notes = <<NoteText(<<"C", "b">>, <<4>>), NoteText(<<"B", "#">>, <<3>>)>>
  /\ inv.steps = 3
  /\ inv.out = <<NoteText(<<"C", "">>, <<5>>), NoteText(<<"B", "">>, <<5>>)>>

(***************************************************************************)
(* C2.  For every non-empty chord x and every integer k,                   *)
(* applyGenericInversion(applyGenericInversion(x, k), -k), two independent *)
(* calls in either sign order, has the pitch-class multiset of x.          *)
(***************************************************************************)
C2_InversionRoundTrip ==
  (inv.pc = "second" /\ inv.notes # <<>> /\ inv.steps2 = -inv.steps) =>
    /\ Len(inv.out2) = Len(inv.notes)
    /\ PitchClassBag(inv.out2) = PitchClassBag(inv.notes)

\* Up two and down two on a chord that spans more than an octave.
C2_Witness ==
  /\ inv.pc = "second"
  /\ inv.notes = <<NoteText(<<"D", "">>, <<6>>), NoteText(<<"C", "">>, <<4>>),
                   NoteText(<<"G", "#">>, <<4>>)>>
  /\ inv.steps = 2 /\ inv.steps2 = -2
  /\ inv.out # inv.notes
  /\ PitchClassBag(inv.out2) = PitchClassBag(inv.notes)

\* The calls a state of the detector's caller holds: <<input, label>> pairs.
DetectCalls ==
  (IF det.pc \in {"detected", "extended"} THEN {<<det.notes, det.label>>} ELSE {})
    \cup (IF det.pc = "extended" THEN {<<det.notes2, det.label2>>} ELSE {})

\* The set of pitch classes of a list of notes.
PitchClassSet(notes) == {PitchClassOf(notes[i]) : i \in 1..Len(notes)}

\* Value of a note text as the engine reads it: a rejected text counts as C4.
ValueOf(note) == IF GrammarAccepts(note) THEN AbsValueOf(note) ELSE 48

\* The notes of a non-empty list that sound lowest.
LowestNotes(notes) ==
  {notes[i] : i \in {j \in 1..Len(notes) : \A k \in 1..Len(notes) : ValueOf(notes[j]) <= ValueOf(notes[k])}}

\* The pitch class that sounds lowest (one, whatever the spelling).
BassPitchClass(notes) == PitchClassOf(CHOOSE n \in LowestNotes(notes) : TRUE)

\* The spellings of the lowest-sounding notes.
BassNames(notes) == {n.name : n \in LowestNotes(notes)}

\* The intervals of a pitch-class set above a root, as a set.
IntervalSet(pcs, root) == {(p - root + 12) % 12 : p \in pcs}

\* The signature table of the specification: interval set -> quality suffix.
KnownIntervalSets ==
  { {0,4,7}, {0,3,7}, {0,3,6}, {0,4,8}, {0,2,7}, {0,5,7},
    {0,4,7,11}, {0,4,7,10}, {0,3,7,10}, {0,3,6,9}, {0,3,6,10} }

QualityOf(set) ==
  CASE set = {0,4,7}    -> ""
    [] set = {0,3,7}    -> "m"
    [] set = {0,3,6}    -> "dim"
    [] set = {0,4,8}    -> "aug"
    [] set = {0,2,7}    -> "sus2"
    [] set = {0,5,7}    -> "sus4"
    [] set = {0,4,7,11} -> "maj7"
    [] set = {0,4,7,10} -> "7"
    [] set = {0,3,7,10} -> "m7"
    [] set = {0,3,6,9}  -> "dim7"
    [] set = {0,3,6,10} -> "m7b5"

\* The pitch classes of the input from which the input is a known chord.
MatchingRoots(notes) ==
  {r \in PitchClassSet(notes) : IntervalSet(PitchClassSet(notes), r) \in KnownIntervalSets}

\* The least element of a non-empty set of numbers.
Least(S) == CHOOSE x \in S : \A y \in S : x <= y

\* A label that names a chord: neither "" nor "?".
NamesChord(label) == label.root # <<>>

(***************************************************************************)
(* C7.  detectChordName returns "<Root><Quality>" with no slash whenever   *)
(* the lowest-sounding note has the root's pitch class, and the slash form *)
(* "<Root><Quality>/<Bass>" only when the bass is a different pitch class  *)
(* from the root, for every spelling of the input notes.                   *)
(***************************************************************************)
C7_SlashOnlyForInversions ==
  \A c \in DetectCalls :
    NamesChord(c[2]) =>
      /\ (BassPitchClass(c[1]) = PitchClassOfName(c[2].root)) => c[2].bass = <<>>
      /\ c[2].bass # <<>> => PitchClassOfName(c[2].bass[1]) # PitchClassOfName(c[2].root)

(***************************************************************************)
(* C8.  The root detectChordName reports is the numerically lowest pitch   *)
(* class of the input from which the input's interval set is a known       *)
(* signature, regardless of which note sounds lowest, symmetric and        *)
(* ambiguous sets included.                                                *)
(***************************************************************************)
C8_LowestPitchClassWins ==
  \A c \in DetectCalls :
    (c[1] # <<>> /\ MatchingRoots(c[1]) # {}) =>
      /\ NamesChord(c[2])
      /\ PitchClassOfName(c[2].root) = Least(MatchingRoots(c[1]))

\* An augmented triad with E in the bass: C, E and G# all match, C is reported.
C8_Witness ==
  /\ det.pc = "detected"
  /\ det.notes = <<NoteText(<<"E", "">>, <<4>>), NoteText(<<"G", "#">>, <<4>>),
                   NoteText(<<"C", "">>, <<5>>)>>
  /\ MatchingRoots(det.notes) = {0, 4, 8}
  /\ det.label = SlashLabel(<<"C", "">>, "aug", <<"E", "">>)

(***************************************************************************)
(* C9.  detectChordName depends only on the set of pitch classes and on    *)
(* the bass note: a note that doubles a pitch class in another octave      *)
(* (the bass staying the bass) does not change the label; the quality is   *)
(* the one the signature table gives the interval set; and [C4,E4,G4] is   *)
(* "C", [E4,G4,C5] "C/E", [A3,C4,E4] "Am", [C4,E4,G4,Bb4] "C7",            *)
(* [C4,F4,G4] "Csus4".                                                     *)
(***************************************************************************)
C9_PitchClassSetAndBassDecide ==
  /\ (/\ det.pc = "extended"
      /\ PitchClassSet(det.notes2) = PitchClassSet(det.notes)
      /\ BassNames(det.notes2) = BassNames(det.notes)
      /\ Cardinality(BassNames(det.notes)) = 1) => det.label2 = det.label
  /\ \A c \in DetectCalls :
       /\ NamesChord(c[2]) =>
            c[2].quality = QualityOf(IntervalSet(PitchClassSet(c[1]), PitchClassOfName(c[2].root)))
       /\ c[1] = <<NoteText(<<"C", "">>, <<4>>), NoteText(<<"E", "">>, <<4>>),
                   NoteText(<<"G", "">>, <<4>>)>>
            => c[2] = ChordLabel(<<"C", "">>, "")
       /\ c[1] = <<NoteText(<<"E", "">>, <<4>>), NoteText(<<"G", "">>, <<4>>),
                   NoteText(<<"C", "">>, <<5>>)>>
            => c[2] = SlashLabel(<<"C", "">>, "", <<"E", "">>)
       /\ c[1] = <<NoteText(<<"A", "">>, <<3>>), NoteText(<<"C", "">>, <<4>>),
                   NoteText(<<"E", "">>, <<4>>)>>
            => c[2] = ChordLabel(<<"A", "">>, "m")
       /\ c[1] = <<NoteText(<<"C", "">>, <<4>>), NoteText(<<"E", "">>, <<4>>),
                   NoteText(<<"G", "">>, <<4>>), NoteText(<<"B", "b">>, <<4>>)>>
            => c[2] = ChordLabel(<<"C", "">>, "7")
       /\ c[1] = <<NoteText(<<"C", "">>, <<4>>), NoteText(<<"F", "">>, <<4>>),
                   NoteText(<<"G", "">>, <<4>>)>>
            => c[2] = ChordLabel(<<"C", "">>, "sus4")

\* C major with its root doubled an octave higher: still "C".
C9_Witness ==
  /\ det.pc = "extended"
  /\ det.notes = <<NoteText(<<"C", "">>, <<4>>), NoteText(<<"E", "">>, <<4>>),
                   NoteText(<<"G", "">>, <<4>>)>>
  /\ det.notes2 = Append(det.notes, NoteText(<<"C", "">>, <<5>>))
  /\ det.label = ChordLabel(<<"C", "">>, "")
  /\ det.label2 = det.label

(***************************************************************************)
(* C10.  detectChordName returns the empty string for an empty list, and   *)
(* "?" for every non-empty input whose pitch classes match no signature    *)
(* from any candidate root, one-note and two-note inputs among them.       *)
(***************************************************************************)
C10_EmptyAndUnknown ==
  \A c \in DetectCalls :
    /\ c[1] = <<>> => c[2] = [root |-> <<>>, quality |-> "", bass |-> <<>>]
    /\ (c[1] # <<>> /\ MatchingRoots(c[1]) = {}) =>
         c[2] = [root |-> <<>>, quality |-> "?", bass |-> <<>>]
    /\ Len(c[1]) \in {1, 2} => c[2] = [root |-> <<>>, quality |-> "?", bass |-> <<>>]

\* A two-note input, and the same with a third note that still makes no known chord.
C10_Witness ==
  /\ det.pc = "extended"
  /\ det.notes = <<NoteText(<<"C", "">>, <<4>>), NoteText(<<"G", "">>, <<4>>)>>
  /\ det.notes2 = Append(det.notes, NoteText(<<"C", "#">>, <<4>>))
  /\ det.label = UnknownLabel
  /\ det.label2 = UnknownLabel

\* The per-mode quality table in its compact form: the Ionian row and, for each mode,
\* the degree of Ionian at which the mode starts.
IonianQualities == <<"maj", "min", "min", "maj", "maj", "min", "dim">>

ModeRotation(mode) ==
  CASE mode = "Ionian" -> 0 [] mode = "Dorian" -> 1 [] mode = "Phrygian" -> 2
    [] mode = "Lydian" -> 3 [] mode = "Mixolydian" -> 4 [] mode = "Aeolian" -> 5
    [] mode = "Locrian" -> 6

TableQuality(mode, d) == IonianQualities[((d + ModeRotation(mode)) % 7) + 1]

(***************************************************************************)
(* C11.  For every root and each of the seven diatonic modes, the quality  *)
(* getDiatonicChordType measures at degree d = 0..6 of the one-octave      *)
(* scale getScaleNotes(root, mode, 1) is the one the quality table gives:  *)
(* Ionian maj, min, min, maj, maj, min, dim, and every other mode that row *)
(* rotated to its starting degree (Dorian 1, ..., Locrian 6).              *)
(***************************************************************************)
C11_MeasuredQualityAgreesWithTable ==
  (dia.pc = "typed" /\ sc.octaves = 1 /\ sc.mode \in DiatonicModes
     /\ dia.degreeIndex \in 0..6) =>
    dia.type = TableQuality(sc.mode, dia.degreeIndex)

\* Degree 5 of Eb Locrian (the triad on Cb, whose third and fifth wrap round to the
\* start of the scale) measures major, as the table's row rotated by 6 says.
C11_Witness ==
  /\ dia.pc = "typed" /\ sc.octaves = 1
  /\ sc.root = NoteText(<<"E", "b">>, <<3>>) /\ sc.mode = "Locrian"
  /\ dia.degreeIndex = 5
  /\ dia.type = "maj"
  /\ TableQuality("Locrian", 5) = "maj"

(***************************************************************************)
(* C12.  For a scale that holds the indices d, d+2 and d+4,                *)
(* getDiatonicChord(scale, d, flag) is [scale[d], scale[d+2], scale[d+4]]  *)
(* when d < 3 or flag is false, and                                        *)
(* [transpose(scale[d+4], -12), scale[d], scale[d+2]] when flag is true    *)
(* and d >= 3: the boundary lies between degree 2 and degree 3.            *)
(***************************************************************************)
C12_VoicingRuleFromDegreeThree ==
  (dia.pc = "chorded" /\ dia.degreeIndex >= 0
     /\ dia.degreeIndex + 4 < Len(sc.notes)) =>
    LET d == dia.degreeIndex
        scale == sc.notes
    IN dia.notes =
         IF d < 3 \/ ~dia.inversionStrategy
           THEN <<At(scale, d), At(scale, d + 2), At(scale, d + 4)>>
           ELSE <<transpose(At(scale, d + 4), -12), At(scale, d), At(scale, d + 2)>>

\* Degree 3 of C Ionian over two octaves with the flag set: F4, A4, C5 voiced as
\* C4, F4, A4.
C12_Witness ==
  /\ dia.pc = "chorded" /\ dia.degreeIndex = 3 /\ dia.inversionStrategy
  /\ sc.root = NoteText(<<"C", "">>, <<>>) /\ sc.mode = "Ionian" /\ sc.octaves = 2
  /\ dia.notes = <<NoteText(<<"C", "">>, <<4>>), NoteText(<<"F", "">>, <<4>>),
                   NoteText(<<"A", "">>, <<4>>)>>

(***************************************************************************)
(* C13.  When index d+2 or d+4 is past the end of the scale,               *)
(* getDiatonicChord returns the one-element list [scale[d]] for either     *)
(* value of the flag, and never a list with an undefined slot.             *)
(***************************************************************************)
C13_ShortScaleGivesRootOnly ==
  (dia.pc = "chorded"
     /\ (dia.degreeIndex + 2 >= Len(sc.notes) \/ dia.degreeIndex + 4 >= Len(sc.notes))) =>
    /\ dia.notes = <<ElementAt(sc.notes, dia.degreeIndex)>>
    /\ \A i \in 1..Len(dia.notes) : dia.notes[i] # Undefined

(***************************************************************************)
(* C14.  No exported operation throws for a well-typed input: for an empty *)
(* scale and for a degree index outside the scale (negative or past the    *)
(* end) getDiatonicChordType still returns a chord quality.                *)
(***************************************************************************)
C14_ChordTypeNeverThrows ==
  dia.pc = "typed" => dia.type \in ChordType

(***************************************************************************)
(* C15.  A note text the grammar rejects is read as C4 (pitch class 0,     *)
(* octave 4, absolute value 48), and an accepted name without octave is    *)
(* read at octave 4: transposing either gives what transposing C4, or the  *)
(* name at octave 4, gives, and transpose(text, 0) is "C4" for every       *)
(* rejected text.                                                          *)
(***************************************************************************)
C15_RejectedTextIsC4 ==
  tr.pc = "first" =>
    /\ ~GrammarAccepts(tr.note) =>
         /\ parseNote(tr.note) = [name |-> <<"C", "">>, octave |-> 4, absValue |-> 48]
         /\ tr.first = transpose(NoteText(<<"C", "">>, <<4>>), tr.a)
         /\ tr.a = 0 => tr.first = NoteText(<<"C", "">>, <<4>>)
    /\ (GrammarAccepts(tr.note) /\ tr.note.oct = <<>>) =>
         /\ parseNote(tr.note).octave = 4
         /\ tr.first = transpose(NoteText(tr.note.name, <<4>>), tr.a)

\* transpose("C###0", 0) is "C4".
C15_Witness ==
  /\ tr.pc = "first" /\ tr.a = 0
  /\ tr.note = NoteText(<<"C", "###">>, <<0>>)
  /\ tr.first = NoteText(<<"C", "">>, <<4>>)

(***************************************************************************)
(* C16.  applyGenericInversion(notes, 0) returns its input unchanged: the  *)
(* same notes in the same order and spelling, neither sorted nor rendered  *)
(* again with sharps.                                                      *)
(***************************************************************************)
C16_ZeroStepsIsIdentity ==
  (inv.pc = "first" /\ inv.steps = 0) => inv.out = inv.notes

\* [D6, Cb4] with 0 steps stays [D6, Cb4]: not sorted, and Cb4 not rendered as B4.
C16_Witness ==
  /\ inv.pc = "first" /\ inv.steps = 0
  /\ inv.notes = <<NoteText(<<"D", "">>, <<6>>), NoteText(<<"C", "b">>, <<4>>)>>
  /\ inv.out = <<NoteText(<<"D", "">>, <<6>>), NoteText(<<"C", "b">>, <<4>>)>>

\* The numerals of degrees 0..6 as the claim lists them, in both cases.
UpperNumerals == <<"I", "II", "III", "IV", "V", "VI", "VII">>

LowerNumerals == <<"i", "ii", "iii", "iv", "v", "vi", "vii">>

NumeralSuffix(type) ==
  CASE type = "dim" -> "°" [] type = "aug" -> "+" [] type = "7" -> "7"
    [] type = "sus2" -> "sus2" [] type = "sus4" -> "sus4"
    [] type \in {"maj", "maj7", "min", "min7"} -> ""

(***************************************************************************)
(* C17.  getRomanNumeral(degree, type) is the numeral I..VII of degree     *)
(* 0..6, in lower case exactly for min, min7 and dim, followed by "°" for  *)
(* dim, "+" for aug, "7" for 7, "sus2" / "sus4" for the suspended types    *)
(* and nothing for maj, maj7, min, min7; for a degree below 0 or above 6   *)
(* it is the empty string.                                                 *)
(***************************************************************************)
C17_RomanNumeralTable ==
  rom.pc = "done" =>
    rom.numeral =
      IF rom.degree < 0 \/ rom.degree > 6 THEN <<"", "">>
      ELSE <<IF rom.type \in {"min", "min7", "dim"}
               THEN LowerNumerals[rom.degree + 1]
               ELSE UpperNumerals[rom.degree + 1],
             NumeralSuffix(rom.type)>>

\* Degree 6 diminished is "vii°".
C17_Witness ==
  /\ rom.pc = "done" /\ rom.degree = 6 /\ rom.type = "dim"
  /\ rom.numeral = <<"vii", "°">>

(***************************************************************************)
(* C18.  For every integer index, negative ones included, and every octave *)
(* base, getNoteFromIndex(index, base) is the sharp-spelled name of the    *)
(* pitch class index mod 12 (in 0..11) with octave base + floor(index/12); *)
(* parsing getNoteFromIndex(index, 0) gives the absolute value index back, *)
(* also for index < 0, where the octave is negative.                       *)
(***************************************************************************)
C18_NoteFromIndexFloors ==
  fi.pc \in {"rendered", "parsed"} =>
    /\ fi.note.name[2] \in {"", "#"}
    /\ PitchClassOfName(fi.note.name) = fi.index % 12
    /\ fi.note.oct = <<fi.octave + (fi.index \div 12)>>
    /\ (fi.pc = "parsed" /\ fi.octave = 0) => fi.absValue = fi.index

\* getNoteFromIndex(-13, 0) is "B-2", which parses back to -13.
C18_Witness ==
  /\ fi.pc = "parsed" /\ fi.index = -13 /\ fi.octave = 0
  /\ fi.note = NoteText(<<"B", "">>, <<-2>>)
  /\ fi.absValue = -13

\* The signed distance from the letter's natural pitch class to pc, folded into -6..6.
FoldedDistance(pc, letter) ==
  LET d == pc - NaturalPitchClass(letter)
  IN IF d > 6 THEN d - 12 ELSE IF d < -6 THEN d + 12 ELSE d

(***************************************************************************)
(* C19.  When the distance from the target letter's natural pitch class to *)
(* the target pitch class, folded into -6..6, is outside -2..2, spellNote  *)
(* returns the fixed sharp spelling NOTES[targetPitchClass]: a well-formed *)
(* name of the right pitch class, maybe on another letter, and never a     *)
(* name with three or more accidental characters.                          *)
(***************************************************************************)
C19_SpellFallsBackToSharpName ==
  (sp.pc \in {"spelled", "indexed"}
     /\ FoldedDistance(sp.targetIndex, sp.targetLetter) \notin -2..2) =>
    /\ sp.spelled = At(NOTES, sp.targetIndex)
    /\ sp.spelled \in GrammarNames
    /\ sp.spelled[2] \in {"", "#"}
    /\ PitchClassOfName(sp.spelled) = sp.targetIndex

\* Pitch class 3 on the letter C lies three semitones up: spelled D#, not C###.
C19_Witness ==
  /\ sp.pc = "spelled" /\ sp.targetIndex = 3 /\ sp.targetLetter = "C"
  /\ FoldedDistance(3, "C") = 3
  /\ sp.spelled = <<"D", "#">>

\* The root as getScaleNotes reads it: a rejected text is C4, a missing octave is 4.
RootNameRead(root) == IF GrammarAccepts(root) THEN root.name ELSE <<"C", "">>

RootOctaveRead(root) ==
  IF GrammarAccepts(root) /\ root.oct # <<>> THEN root.oct[1]
  ELSE 4

\* Position of a letter in C, D, E, F, G, A, B, from 0.
LetterOrder(l) ==
  CASE l = "C" -> 0 [] l = "D" -> 1 [] l = "E" -> 2 [] l = "F" -> 3
    [] l = "G" -> 4 [] l = "A" -> 5 [] l = "B" -> 6

(***************************************************************************)
(* C20.  In a diatonic mode the note at degree d of the i-th requested     *)
(* octave (i from 0) has octave number rootOctave + i + 1 when its target  *)
(* letter comes before the root letter in C, D, E, F, G, A, B order, and   *)
(* rootOctave + i otherwise; degree 0 of the first octave is the root      *)
(* itself, in the root's own spelling and octave.                          *)
(***************************************************************************)
C20_OctaveStepsAtLetterWrap ==
  (sc.pc = "generated" /\ sc.mode \in DiatonicModes) =>
    LET rootOrder == LetterOrder(RootNameRead(sc.root)[1])
        rootOctave == RootOctaveRead(sc.root)
    IN /\ \A i \in 0..(sc.octaves - 1) : \A d \in 0..6 :
            LET targetOrder == (rootOrder + d) % 7
            IN sc.notes[7 * i + d + 1].oct =
                 <<IF targetOrder < rootOrder THEN rootOctave + i + 1 ELSE rootOctave + i>>
       /\ sc.octaves >= 1 =>
            sc.notes[1] = NoteText(RootNameRead(sc.root), <<rootOctave>>)

\* Ab3 Dorian over two octaves: Ab3 Bb3 Cb4 Db4 Eb4 F4 Gb4, then Ab4 ... Gb5.
C20_Witness ==
  /\ sc.pc = "generated" /\ sc.mode = "Dorian" /\ sc.octaves = 2
  /\ sc.root = NoteText(<<"A", "b">>, <<3>>)
  /\ sc.notes[1] = NoteText(<<"A", "b">>, <<3>>)
  /\ sc.notes[2] = NoteText(<<"B", "b">>, <<3>>)
  /\ sc.notes[3] = NoteText(<<"C", "b">>, <<4>>)
  /\ sc.notes[10] = NoteText(<<"C", "b">>, <<5>>)

\* The multiset of absolute values of a list of notes.
ValueBag(notes) ==
  [v \in {ValueOf(notes[i]) : i \in 1..Len(notes)} |->
     Cardinality({i \in 1..Len(notes) : ValueOf(notes[i]) = v})]

LowestValue(B) == CHOOSE m \in BagToSet(B) : \A v \in BagToSet(B) : m <= v

HighestValue(B) == CHOOSE m \in BagToSet(B) : \A v \in BagToSet(B) : m >= v

\* A single move: the lowest value up 12 semitones, or the highest down 12.
MoveLowestUp(B) == (B (-) SetToBag({LowestValue(B)})) (+) SetToBag({LowestValue(B) + 12})

MoveHighestDown(B) == (B (-) SetToBag({HighestValue(B)})) (+) SetToBag({HighestValue(B) - 12})

\* n single moves in one direction.
RECURSIVE Moved(_, _, _)
Moved(B, n, up) ==
  IF n = 0 THEN B
  ELSE Moved(IF up THEN MoveLowestUp(B) ELSE MoveHighestDown(B), n - 1, up)

(***************************************************************************)
(* C21.  For every non-empty input and every steps # 0 the list            *)
(* applyGenericInversion returns is in non-decreasing order of absolute    *)
(* pitch, every note of it is in fixed sharp spelling, and its pitches are *)
(* those |steps| single moves give: each takes the current lowest note up  *)
(* 12 semitones (steps > 0) or the current highest down 12 (steps < 0).    *)
(***************************************************************************)
C21_InversionSortedSharpMoves ==
  (inv.pc = "first" /\ inv.notes # <<>> /\ inv.steps # 0) =>
    /\ \A i \in 1..(Len(inv.out) - 1) : ValueOf(inv.out[i]) <= ValueOf(inv.out[i + 1])
    /\ \A i \in 1..Len(inv.out) :
         /\ inv.out[i].name \in GrammarNames /\ inv.out[i].name[2] \in {"", "#"}
         /\ inv.out[i].oct # <<>>
    /\ ValueBag(inv.out) =
         Moved(ValueBag(inv.notes),
               IF inv.steps > 0 THEN inv.steps ELSE -inv.steps, inv.steps > 0)

\* [D6, Cb4, G#4] down two: D6 to D5, then D5, still the highest, to D4; the result
\* is sorted as D4, G#4, B4, with Cb4 rendered as B4.
C21_Witness ==
  /\ inv.pc = "first" /\ inv.steps = -2
  /\ inv.notes = <<NoteText(<<"D", "">>, <<6>>), NoteText(<<"C", "b">>, <<4>>),
                   NoteText(<<"G", "#">>, <<4>>)>>
  /\ inv.out = <<NoteText(<<"D", "">>, <<4>>), NoteText(<<"G", "#">>, <<4>>),
                 NoteText(<<"B", "">>, <<4>>)>>

\* The distance in semitones between the lowest and the highest note of a list.
SpanOf(notes) == HighestValue(ValueBag(notes)) - LowestValue(ValueBag(notes))

(***************************************************************************)
(* C27.  applyGenericInversion composes on absolute pitches: for every     *)
(* non-empty chord x and all integers a and b,                             *)
(* applyGenericInversion(applyGenericInversion(x, a), b) has the multiset  *)
(* of absolute values of applyGenericInversion(x, a + b); so +k then -k    *)
(* gives back the absolute pitches of x, also for a chord that spans more  *)
(* than an octave.                                                         *)
(***************************************************************************)
C27_InversionComposes ==
  (inv.pc = "second" /\ inv.notes # <<>>) =>
    ValueBag(inv.out2) =
      ValueBag(applyGenericInversion(inv.notes, inv.steps + inv.steps2))

\* C27 as it holds: the same when a and b do not have opposite signs, or when the
\* chord spans at most an octave (highest - lowest <= 12); for a wider chord the
\* lowest note moved up does not become the highest, so the move down takes another
\* note and only the pitch classes come back.
C27_InversionComposesWithinOctave ==
  (inv.pc = "second" /\ inv.notes # <<>>
     /\ (inv.steps * inv.steps2 >= 0 \/ SpanOf(inv.notes) <= 12)) =>
    ValueBag(inv.out2) =
      ValueBag(applyGenericInversion(inv.notes, inv.steps + inv.steps2))

\* [G#4, C4, Cb4] up two and down three is [B3, C4, G#4], the chord down one.
C27_Witness ==
  /\ inv.pc = "second" /\ inv.steps = 2 /\ inv.steps2 = -3
  /\ inv.notes = <<NoteText(<<"G", "#">>, <<4>>), NoteText(<<"C", "">>, <<4>>),
                   NoteText(<<"C", "b">>, <<4>>)>>
  /\ inv.out = <<NoteText(<<"B", "">>, <<4>>), NoteText(<<"C", "">>, <<5>>),
                 NoteText(<<"G", "#">>, <<5>>)>>
  /\ inv.out2 = <<NoteText(<<"B", "">>, <<3>>), NoteText(<<"C", "">>, <<4>>),
                  NoteText(<<"G", "#">>, <<4>>)>>
  /\ inv.out2 = applyGenericInversion(inv.notes, -1)

\* The quality the claim's table gives to a pair of intervals.
TriadQuality(thirdInterval, fifthInterval) ==
  CASE fifthInterval = 7 /\ thirdInterval = 4 -> "maj"
    [] fifthInterval = 7 /\ thirdInterval = 3 -> "min"
    [] fifthInterval = 6 /\ thirdInterval = 3 -> "dim"
    [] fifthInterval = 8 /\ thirdInterval = 4 -> "aug"
    [] OTHER -> "maj"

PreferredNames ==
  { <<"C", "">>, <<"D", "b">>, <<"D", "">>, <<"E", "b">>, <<"E", "">>, <<"F", "">>,
    <<"F", "#">>, <<"G", "">>, <<"A", "b">>, <<"A", "">>, <<"B", "b">>, <<"B", "">> }

(***************************************************************************)
(* C24.  For every root of PREFERRED_ROOT_NAMES at octave 4, every         *)
(* diatonic mode and k in {1, 2}, the note at degree d of octave i of      *)
(* getScaleNotes(root, mode, k) parses to the absolute value               *)
(* abs(root) + MODES[mode][d] + 12*i: name and octave number of every      *)
(* scale note (B#, Cb, E#, Fb included) denote the intended pitch under    *)
(* the codec's own rule, and the scale is strictly ascending.              *)
(***************************************************************************)
C24_ScaleNotesParseToIntendedPitch ==
  (sc.pc = "generated" /\ sc.mode \in DiatonicModes /\ sc.octaves \in {1, 2}
     /\ sc.root.name \in PreferredNames /\ sc.root.oct = <<4>>) =>
    /\ \A i \in 0..(sc.octaves - 1) : \A d \in 0..6 :
         parseNote(sc.notes[7 * i + d + 1]).absValue =
           parseNote(sc.root).absValue + MODES[sc.mode][d + 1] + 12 * i
    /\ \A j \in 1..(Len(sc.notes) - 1) :
         parseNote(sc.notes[j]).absValue < parseNote(sc.notes[j + 1]).absValue

\* The quality text of each chord type, as the claim lists them.
QualityText(type) ==
  CASE type = "maj" -> "" [] type = "min" -> "m" [] type = "dim" -> "dim"
    [] type = "aug" -> "aug" [] type = "sus2" -> "sus2" [] type = "sus4" -> "sus4"
    [] type = "7" -> "7" [] type = "maj7" -> "maj7" [] type = "min7" -> "m7"

(***************************************************************************)
(* C25.  For each of the 12 root pitch classes and each of the nine chord  *)
(* types, detectChordName(getChordNotes(root, type, 0)) names the pitch    *)
(* class of root as the chord root, carries the quality of the type (maj   *)
(* "", min "m", dim "dim", aug "aug", sus2 "sus2", sus4 "sus4", 7 "7",     *)
(* maj7 "maj7", min7 "m7") and has no slash part.                          *)
(***************************************************************************)
C25_DetectRecoversBuiltChord ==
  bd.pc = "detected" =>
    /\ bd.label.root # <<>>
    /\ PitchClassOfName(bd.label.root) = PitchClassOf(bd.root)
    /\ bd.label.quality = QualityText(bd.type)
    /\ bd.label.bass = <<>>

(***************************************************************************)
(* C26.  detectChordName reads its input as an unordered collection: every *)
(* permutation of a list gets the label of the list, also when two notes   *)
(* of the list have one absolute value under two spellings (C#4 and Db4).  *)
(***************************************************************************)
C26_LabelIgnoresOrder ==
  ord.pc = "detected" => ord.label2 = ord.label

(***************************************************************************)
(* C28.  AudioEngine.setInstrument is safe under overlapping calls for one *)
(* role: in every interleaving, once all calls have completed, the active  *)
(* instrument is of the type the most recent call asked for and has not    *)
(* been disposed, every replaced instrument has been disposed exactly      *)
(* once, and no created instrument is left both inactive and undisposed.   *)
(***************************************************************************)
C28_SetInstrumentSafeUnderOverlap ==
  (eng.pc = "running" /\ eng.calls # <<>>
     /\ \A c \in 1..Len(eng.calls) : eng.calls[c].pc = "done") =>
    /\ eng.created[eng.melodyInstrument].type = eng.calls[Len(eng.calls)].type
    /\ eng.created[eng.melodyInstrument].disposed = 0
    /\ \A i \in 1..Len(eng.created) :
         i # eng.melodyInstrument => eng.created[i].disposed = 1

(***************************************************************************)
(* C30.  From any root index in 0..11, after any sequence of D-pad up and  *)
(* D-pad down presses the root index is in 0..11; a press followed by the  *)
(* opposite press returns to the root before them; and twelve presses in   *)
(* a row in one direction visit all twelve roots once and end where they   *)
(* began.                                                                  *)
(***************************************************************************)
C30_CircleOfFifthsClosed ==
  cof.pc = "running" =>
    /\ cof.rootNoteIndex \in 0..11
    /\ \A k \in 1..(Len(cof.presses) - 1) :
         cof.presses[k] # cof.presses[k + 1] => cof.roots[k + 2] = cof.roots[k]
    /\ (Len(cof.presses) >= 12
          /\ \A k \in (Len(cof.presses) - 11)..Len(cof.presses) :
               cof.presses[k] = cof.presses[Len(cof.presses)]) =>
         LET first == Len(cof.presses) - 11
         IN /\ {cof.roots[k + 1] : k \in first..Len(cof.presses)} = 0..11
            /\ cof.roots[Len(cof.roots)] = cof.roots[first]

\* Twelve presses down from root 3: through 8, 1, 6, ... and back to 3.
C30_Witness ==
  /\ cof.pc = "running" /\ Len(cof.presses) = 12
  /\ \A k \in 1..12 : cof.presses[k] = -1
  /\ cof.roots[1] = 3 /\ cof.roots[2] = 8 /\ cof.roots[3] = 1
  /\ cof.rootNoteIndex = 3

\* The scale note slot i of a wheel shows: in Chromatic mode NOTES[i] at octave 4,
\* in a diatonic mode the scale note on the slot's letter, <<>> when there is none.
SlotNote(a, i) ==
  LET currentMode == SCALE_MODES[a.scaleModeIndex + 1]
      scaleNotes == AppScaleNotes(a.rootNoteIndex, currentMode)
  IN IF currentMode = "Chromatic" THEN <<scaleNotes[i + 1]>>
     ELSE LET on == {k \in 1..Len(scaleNotes) : scaleNotes[k].name[1] = fixedSlots[i + 1]}
          IN IF on = {} THEN <<>> ELSE <<scaleNotes[CHOOSE k \in on : TRUE]>>

\* A chord is built on pitch class pc: pc sounds in it and the intervals of its notes
\* from pc are those of a known chord.
BuiltOn(chord, pc) ==
  /\ pc \in PitchClassSet(chord)
  /\ IntervalSet(PitchClassSet(chord), pc) \in KnownIntervalSets

(***************************************************************************)
(* C29.  In the App, in every mode (Chromatic included) and for every      *)
(* wheel slot that shows a scale note, the right trigger pulled on that    *)
(* slot plays exactly that scale note, and the left trigger pulled on it   *)
(* plays a chord whose root has the slot's pitch class; the fallback of a  *)
(* failed parse to C4 never decides the sounded root.                      *)
(***************************************************************************)
C29_TriggersPlayTheSlot ==
  app.pc = "running" =>
    /\ (app.selectedNoteIndex # <<>> /\ SlotNote(app, app.selectedNoteIndex[1]) # <<>>) =>
         app.playingNote = SlotNote(app, app.selectedNoteIndex[1])
    /\ (app.selectedChordIndex # <<>> /\ SlotNote(app, app.selectedChordIndex[1]) # <<>>) =>
         /\ app.playingChord # <<>>
         /\ app.rootForChord # <<>> /\ NoteRegexMatches(app.rootForChord[1])
         /\ BuiltOn(app.playingChord[1],
                    PitchClassOf(SlotNote(app, app.selectedChordIndex[1])[1]))

============================================================================
